---- MODULE Spec2Model ----
(***************************************************************************)
(* Model of the backup/restore operator (backup_operator package).         *)
(*                                                                         *)
(* The Operation store, the create handler BackupOperator.run, the         *)
(* zalando provisioning strategy, the polling daemon wait_and_cleanup and  *)
(* the finalization workflow are modelled as interleaved processes, one    *)
(* create handler and one daemon per Operation, together with the          *)
(* environment (Kubernetes controllers, the Zalando operator, the vendor). *)
(* Texts on which the code does character work (vendor statuses) are       *)
(* sequences of one-character strings.                                     *)
(***************************************************************************)
EXTENDS Integers, Sequences, FiniteSets, TLC

VARIABLES
    cr,        \* Operation store: per Operation its custom resource
    pc,        \* position of the create handler (BackupOperator.run) per Operation
    loc,       \* locals of the create handler per Operation
    dpc,       \* position of the daemon (wait_and_cleanup) per Operation
    dloc,      \* locals of the daemon per Operation
    stopped,   \* the daemon's stop signal per Operation
    env,       \* live clusters: Zalando CR, StatefulSet, pods, volumes, helper workload
    hist,      \* per Operation: record of what its handlers did (observation only)
    fnIn,      \* argument of a function applied on its own (SpecFn)
    fnOut,     \* its result
    now        \* the clock, in seconds

vars == <<cr, pc, loc, dpc, dloc, stopped, env, hist, fnIn, fnOut, now>>

(***************************************************************************)
(* Bounds                                                                  *)
(***************************************************************************)
MaxItems == 2        \* longest Operation list handed to the guard on its own
MaxPolls == 3        \* polls the time budget of the daemon allows
MaxReplicas == 1     \* replica count of a live cluster
MaxRetries == 1      \* re-runs of a create handler that raised
MaxRecorded == 3     \* largest replica count found recorded in a status
MaxPvcs == 2         \* volumes in the namespace when the numbered ones are deleted
MaxRestarts == 1     \* restarts of the operator process during a create handler

(***************************************************************************)
(* Texts                                                                   *)
(***************************************************************************)
UpperChars == <<"A","B","C","D","E","F","G","H","I","J","K","L","M","N","O","P","Q","R","S","T","U","V","W","X","Y","Z">>
LowerChars == <<"a","b","c","d","e","f","g","h","i","j","k","l","m","n","o","p","q","r","s","t","u","v","w","x","y","z">>
WhiteChars == {" ", "\t", "\n"}

LowerChar(c) ==
    IF \E i \in 1..26 : UpperChars[i] = c
    THEN LowerChars[CHOOSE i \in 1..26 : UpperChars[i] = c]
    ELSE c

\* str.lower()
lower(s) == [i \in 1..Len(s) |-> LowerChar(s[i])]

\* str.strip()
strip(s) ==
    LET keep == {i \in 1..Len(s) : s[i] \notin WhiteChars}
    IN  IF keep = {} THEN <<>>
        ELSE LET lo == CHOOSE i \in keep : \A j \in keep : i <= j
                 hi == CHOOSE i \in keep : \A j \in keep : j <= i
             IN  SubSeq(s, lo, hi)

\* str.startswith(p)
startswith(s, p) == Len(s) >= Len(p) /\ SubSeq(s, 1, Len(p)) = p

sUnknown == <<"U","n","k","n","o","w","n">>
sCompleted == <<"c","o","m","p","l","e","t","e","d">>
sFailed == <<"f","a","i","l","e","d">>
sKilled == <<"k","i","l","l","e","d">>
sWaiting == <<"w","a","i","t","i","n","g">>
sPending == <<"p","e","n","d","i","n","g">>
rRunning == <<"R","u","n","n","i","n","g">>
rWaiting == <<"W","a","i","t","i","n","g">>
rPending == <<"P","e","n","d","i","n","g">>
rCompleted == <<"C","o","m","p","l","e","t","e","d">>
rCompletedErr == <<"C","o","m","p","l","e","t","e","d"," ","w","/"," ","e","r","r","o","r","s">>
rFailed == <<"F","a","i","l","e","d">>
rKilled == <<"K","i","l","l","e","d">>
rfailed == <<"f","a","i","l","e","d">>
rKILLED == <<"K","I","L","L","E","D">>
rCOMPLETED == <<"C","O","M","P","L","E","T","E","D">>
runknown == <<"u","n","k","n","o","w","n">>
rFailedSp == <<" ","F","a","i","l","e","d"," ">>
rCompletedSp == <<" ","C","o","m","p","l","e","t","e","d">>
rUnknownSp == <<"U","n","k","n","o","w","n"," ">>
rBlank == <<" ">>
rwaiting == <<"w","A","i","T","i","N","g">>
rSuspended == <<"S","u","s","p","e","n","d","e","d">>
rFailedOver == <<"F","a","i","l","e","d"," ","o","v","e","r">>
rComplete == <<"C","o","m","p","l","e","t","e">>
rPENDING == <<"P","E","N","D","I","N","G">>

\* raw texts handed to the classification functions on their own
RawTexts ==
    { <<>>, rRunning, rWaiting, rPending, rCompleted, rCompletedErr, rFailed, rKilled,
      sUnknown, rfailed, rKILLED, rCOMPLETED, runknown, rFailedSp, rCompletedSp,
      rUnknownSp, rBlank, rwaiting, rSuspended, rFailedOver, rComplete, rPENDING }

(***************************************************************************)
(* Python values: None, a str, a CommvaultJobStatus object.                *)
(***************************************************************************)
PyNone == [kind |-> "none", s |-> <<>>]
PyStr(s) == [kind |-> "str", s |-> s]
PyInt(n) == [kind |-> "int", n |-> n]

\* CommvaultJobStatus.__init__: a falsy status becomes UNKNOWN
CommvaultJobStatus(v) ==
    [kind |-> "cjs", s |-> IF v.kind = "none" \/ v.s = <<>> THEN sUnknown ELSE v.s]

\* truth value of a Python value; CommvaultJobStatus defines neither __bool__ nor __len__
truthy(v) ==
    CASE v.kind = "none" -> FALSE
      [] v.kind = "str"  -> v.s # <<>>
      [] v.kind = "int"  -> v.n # 0
      [] OTHER           -> TRUE

\* str(v); CommvaultJobStatus.__str__
str(v) == IF v.kind = "none" THEN <<"N","o","n","e">> ELSE v.s

\* CommvaultJobStatus.__eq__ with a CommvaultJobStatus on the left
status_eq(a, b) == b.kind # "none" /\ a.s = b.s

is_unknown(st) == st.s = sUnknown

is_success(st) == startswith(lower(st.s), sCompleted)

is_terminal(st) ==
    startswith(lower(st.s), sCompleted) \/ st.s \in {rFailed, rKilled}

\* a variant that forgets the killed state
map_phase_no_killed(status) ==
    IF ~truthy(status) \/ str(status) = sUnknown THEN "Pending"
    ELSE LET low == lower(strip(str(status)))
         IN  IF startswith(low, sCompleted) THEN "Succeeded"
             ELSE IF low \in {sFailed} THEN "Failed"
             ELSE IF low \in {sWaiting, sPending} THEN "Pending"
             ELSE "Running"

map_phase_from_status(status) ==
    IF ~truthy(status) \/ str(status) = sUnknown THEN "Pending"
    ELSE LET s == strip(str(status))
             low == lower(s)
         IN  IF startswith(low, sCompleted) THEN "Succeeded"
             ELSE IF low \in {sFailed, sKilled} THEN "Failed"
             ELSE IF low \in {sWaiting, sPending} THEN "Pending"
             ELSE "Running"

TerminalPhases == {"Succeeded", "Failed", "Rejected"}

(***************************************************************************)
(* The Operation store                                                     *)
(***************************************************************************)
Ops == {"op1", "op2"}
OpOrder == <<"op1", "op2">>          \* a list call returns the items in name order
Clusters == {"pg1", "pg2"}
NoName == "None"

\* Operation.__init__ leaves these fields; the values are the normalised ones
Kinds ==
    { [operator |-> "zalando", action |-> "backup",  restore_mode |-> ""],
      [operator |-> "zalando", action |-> "restore", restore_mode |-> "in-place"],
      [operator |-> "zalando", action |-> "restore", restore_mode |-> "out-of-place"],
      [operator |-> "patroni", action |-> "backup",  restore_mode |-> ""] }

is_restore_in_place(k) == k.action = "restore" /\ k.restore_mode = "in-place"

\* the Operations of a CNPG cluster
CnpgKinds ==
    { [operator |-> "cnpg", action |-> "backup",  restore_mode |-> ""],
      [operator |-> "cnpg", action |-> "restore", restore_mode |-> "in-place"],
      [operator |-> "cnpg", action |-> "restore", restore_mode |-> "out-of-place"] }

EmptyStatus == <<>>                  \* a status without any field

NoKind == [operator |-> "", action |-> "", restore_mode |-> ""]

NoCR == [present |-> FALSE, deletionTimestamp |-> FALSE, cluster |-> NoName,
         kind |-> NoKind, status |-> EmptyStatus]

\* dict.get(key, default)
get(d, key, default) == IF key \in DOMAIN d THEN d[key] ELSE default

\* dict.update: the fields named by the call replace or extend the current ones
merged(current, fields) ==
    [k \in (DOMAIN current) \cup (DOMAIN fields) |->
        IF k \in DOMAIN fields THEN fields[k] ELSE current[k]]

\* K8sBackupApi.patch_status: read the status, merge, write; a 404 writes nothing
patch_status(store, name, fields) ==
    IF ~store[name].present THEN store
    ELSE [store EXCEPT ![name].status = merged(@, fields)]

\* K8sBackupApi.delete_cr: a foreground delete marks the resource as terminating
delete_cr(store, name) ==
    IF ~store[name].present THEN store
    ELSE [store EXCEPT ![name].deletionTimestamp = TRUE]

\* what a list call shows of one Operation
ItemOf(store, o) ==
    [name |-> o, deletionTimestamp |-> store[o].deletionTimestamp,
     cluster |-> store[o].cluster, phase |-> get(store[o].status, "phase", "")]

RECURSIVE ListFrom(_, _)
ListFrom(store, i) ==
    IF i > Len(OpOrder) THEN <<>>
    ELSE (IF store[OpOrder[i]].present THEN <<ItemOf(store, OpOrder[i])>> ELSE <<>>)
         \o ListFrom(store, i + 1)

\* list_namespaced_custom_object
list_namespaced_custom_object(store) == ListFrom(store, 1)

(***************************************************************************)
(* ConcurrencyGuard                                                        *)
(***************************************************************************)
NoConflict == [conflict |-> FALSE, other |-> NoName]

\* a variant that does not skip the terminating items
RECURSIVE scan_items_keep_deleting(_, _, _, _)
scan_items_keep_deleting(items, i, cluster_name, current_name) ==
    IF i > Len(items) THEN NoConflict
    ELSE LET it == items[i]
         IN  IF it.name = current_name
             THEN scan_items_keep_deleting(items, i + 1, cluster_name, current_name)
             ELSE IF it.cluster # cluster_name
             THEN scan_items_keep_deleting(items, i + 1, cluster_name, current_name)
             ELSE IF it.phase \in {"Succeeded", "Failed", "Rejected"}
             THEN scan_items_keep_deleting(items, i + 1, cluster_name, current_name)
             ELSE [conflict |-> TRUE, other |-> it.name]

\* the loop over the items of another_operation_in_progress
RECURSIVE scan_items(_, _, _, _)
scan_items(items, i, cluster_name, current_name) ==
    IF i > Len(items) THEN NoConflict
    ELSE LET it == items[i]
         IN  IF it.name = current_name
             THEN scan_items(items, i + 1, cluster_name, current_name)
             ELSE IF it.deletionTimestamp
             THEN scan_items(items, i + 1, cluster_name, current_name)
             ELSE IF it.cluster # cluster_name
             THEN scan_items(items, i + 1, cluster_name, current_name)
             ELSE IF it.phase \in {"Succeeded", "Failed", "Rejected"}
             THEN scan_items(items, i + 1, cluster_name, current_name)
             ELSE [conflict |-> TRUE, other |-> it.name]

\* a variant that treats a failed list call as a conflict
another_operation_fail_closed(listing, cluster_name, current_name) ==
    IF listing.failed THEN [conflict |-> TRUE, other |-> NoName]
    ELSE scan_items(listing.items, 1, cluster_name, current_name)

\* K8sBackupApi.another_operation_in_progress; listing = the answer of the list call
another_operation_in_progress(listing, cluster_name, current_name) ==
    IF listing.failed THEN NoConflict
    ELSE scan_items(listing.items, 1, cluster_name, current_name)

(***************************************************************************)
(* The environment: one live Zalando cluster per cluster name              *)
(***************************************************************************)
PvcIdx == 0..(MaxReplicas - 1)

\* names are sequences of dash-free parts: "pg1-0" is <<"pg1", "0">>
NAMESPACE == "ns1"
OCP_CLUSTER == "ocp"

\* Operation.get_operation_id: the name of the helper workload
get_operation_id(cluster) == <<cluster, NAMESPACE, OCP_CLUSTER>>

ClusterPodName(c) == <<c, "0">>                       \* <cluster>-<ordinal>
HelperPodName(c) == get_operation_id(c) \o <<"0">>

\* the names of the non-terminating pods of the namespace
PodNames(e) ==
    {ClusterPodName(c) : c \in {x \in Clusters : e[x].pods > 0}}
      \cup {HelperPodName(c) : c \in {x \in Clusters : e[x].hpod}}

\* the pods wait_for_sts_pods_gone waits for: name.startswith(f"{sts_name}-")
alive_pods(e, sts_name) ==
    {n \in PodNames(e) : startswith(n, sts_name) /\ Len(n) > Len(sts_name)}

NoVolume == [type |-> "none", op |-> NoName, idx |-> 0, id |-> 0]
NoHelper == [present |-> FALSE, replicas |-> 0, owner |-> NoName, volume |-> NoVolume]

InitCluster(n) ==
    [zinst    |-> n,                          \* spec.numberOfInstances of the Zalando CR
     sts      |-> TRUE,                       \* the StatefulSet exists
     replicas |-> n,                          \* spec.replicas of the StatefulSet
     pods     |-> n,                          \* its non-terminating pods, ordinals 0..pods-1
     pvc      |-> [i \in PvcIdx |-> IF i < n THEN "present" ELSE "absent"],
     vols     |-> {},                         \* clone and restore volumes, by Operation
     snaps    |-> {},                         \* volume snapshots, by Operation
     helper   |-> NoHelper,                   \* the helper StatefulSet of the cluster
     hpod     |-> FALSE]                      \* its pod is alive

(***************************************************************************)
(* Initial state                                                           *)
(***************************************************************************)
InitLoc ==
    [conflict |-> FALSE, other |-> NoName, retries |-> 0, pvc_name |-> 0,
     original_replicas |-> 0, pvc_list |-> {}, target |-> NoVolume,
     job_id |-> <<>>, answer |-> PyNone, initial_status |-> PyNone,
     clone_id |-> 0,                      \* the time stamp in the names of this run
     exception |-> ""]                    \* the exception that left run()

NoBody == [cluster |-> NoName, kind |-> NoKind, originalReplicas |-> PyNone,
           deletionTimestamp |-> FALSE]

InitDloc ==
    [body |-> NoBody, last_status |-> PyNone, answer |-> PyNone, status |-> PyNone,
     polls |-> 0,
     phase |-> "", desired_replicas |-> 0]

InitHist ==
    [guard |-> "none", listFailed |-> FALSE, userDeleted |-> FALSE,
     ensure |-> 0, strategy |-> FALSE, execute |-> "none", steps |-> <<>>,
     verify |-> [sts |-> "none", replicas |-> 0, pods |-> -1], tasks |-> 0, vendor |-> 0,
     taskRaised |-> FALSE, alreadyExists |-> FALSE, restarts |-> 0,
     terminal |-> PyNone, pollsAfter |-> 0, loopWrites |-> 0, timedOut |-> FALSE,
     finalized |-> <<>>, fin |-> <<>>, finFailed |-> {}, finalPatch |-> 0,
     deleteCalls |-> 0]

NoFn == [f |-> "none"]

InitCommon ==
    /\ cr = [o \in Ops |-> NoCR]
    /\ pc = [o \in Ops |-> "none"]
    /\ loc = [o \in Ops |-> InitLoc]
    /\ dpc = [o \in Ops |-> "off"]
    /\ dloc = [o \in Ops |-> InitDloc]
    /\ stopped = [o \in Ops |-> FALSE]
    /\ hist = [o \in Ops |-> InitHist]

\* an Operation admitted earlier, its backup job still running
RunningCR ==
    [present |-> TRUE, deletionTimestamp |-> FALSE, cluster |-> "pg1",
     kind |-> [operator |-> "zalando", action |-> "backup", restore_mode |-> ""],
     status |-> [phase |-> "Running", commvaultStatus |-> rRunning, action |-> "backup",
                 operator |-> "zalando", restore_mode |-> "", startedAt |-> "T",
                 jobId |-> <<"J", "op2">>]]

RunningHist ==
    [InitHist EXCEPT !.guard = "passed", !.ensure = 1, !.strategy = TRUE,
                     !.execute = "returned", !.tasks = 1, !.vendor = 2]

\* no Operation yet
InitEmpty ==
    /\ InitCommon
    /\ \E n \in 1..MaxReplicas : env = [c \in Clusters |-> InitCluster(n)]
    /\ fnIn = NoFn
    /\ fnOut = NoFn
    /\ now = 0

\* no Operation yet, or op2 with its job running
Init ==
    /\ pc \in {[o \in Ops |-> "none"], [o \in Ops |-> IF o = "op2" THEN "done" ELSE "none"]}
    /\ cr = [o \in Ops |-> IF pc[o] = "done" THEN RunningCR ELSE NoCR]
    /\ hist = [o \in Ops |-> IF pc[o] = "done" THEN RunningHist ELSE InitHist]
    /\ loc = [o \in Ops |-> InitLoc]
    /\ dpc = [o \in Ops |-> "off"]
    /\ dloc = [o \in Ops |-> InitDloc]
    /\ stopped = [o \in Ops |-> FALSE]
    /\ \E n \in 1..MaxReplicas : env = [c \in Clusters |-> InitCluster(n)]
    /\ fnIn = NoFn
    /\ fnOut = NoFn
    /\ now = 0

ClusterOf(o) == cr[o].cluster
KindOf(o) == cr[o].kind

daemonVars == <<dpc, dloc, stopped>>
fnVars == <<fnIn, fnOut>>

(***************************************************************************)
(* Users and the API server                                                *)
(***************************************************************************)
\* a user creates an Operation; the create handler is scheduled for it
CreateCR(o, c, k) ==
    /\ pc[o] = "none"
    /\ ~cr[o].present
    /\ cr' = [cr EXCEPT ![o] = [present |-> TRUE, deletionTimestamp |-> FALSE,
                                cluster |-> c, kind |-> k, status |-> EmptyStatus]]
    /\ pc' = [pc EXCEPT ![o] = "guard"]
    /\ UNCHANGED <<loc, env, hist, daemonVars, fnVars, now>>

\* a user deletes an Operation: it is terminating, its daemon is told to stop
UserDelete(o) ==
    /\ cr[o].present
    /\ ~cr[o].deletionTimestamp
    /\ cr' = [cr EXCEPT ![o].deletionTimestamp = TRUE]
    /\ stopped' = [stopped EXCEPT ![o] = TRUE]
    /\ hist' = [hist EXCEPT ![o].userDeleted = TRUE]
    /\ UNCHANGED <<pc, loc, env, dpc, dloc, fnVars, now>>

\* a terminating Operation disappears once its handler has returned and its
\* daemon has exited or has been given up after the stop signal
RemoveCR(o) ==
    /\ cr[o].present
    /\ cr[o].deletionTimestamp
    /\ pc[o] \in {"done", "raised"}
    /\ dpc[o] \in {"off", "exited"} \/ stopped[o]
    /\ cr' = [cr EXCEPT ![o] = NoCR]
    /\ UNCHANGED <<pc, loc, env, hist, daemonVars, fnVars, now>>

(***************************************************************************)
(* BackupOperator.run: guard                                               *)
(***************************************************************************)
Run_Guard(o) ==
    /\ pc[o] = "guard"
    /\ \E failed \in BOOLEAN :
        LET listing == [failed |-> failed, items |-> list_namespaced_custom_object(cr)]
            res == another_operation_in_progress(listing, ClusterOf(o), o)
        IN  /\ loc' = [loc EXCEPT ![o] = [InitLoc EXCEPT !.retries = loc[o].retries,
                                                         !.conflict = res.conflict,
                                                         !.other = res.other]]
            /\ pc' = [pc EXCEPT ![o] = IF res.conflict THEN "reject_patch" ELSE "ensure"]
            /\ hist' = [hist EXCEPT ![o].guard = IF res.conflict THEN "rejected" ELSE "passed",
                                    ![o].listFailed = @ \/ failed]
    /\ UNCHANGED <<cr, env, daemonVars, fnVars, now>>

Run_RejectPatch(o) ==
    /\ pc[o] = "reject_patch"
    /\ cr' = patch_status(cr, o, [phase |-> "Rejected", reason |-> "ConcurrentOperation",
                                  message |-> loc[o].other])
    /\ pc' = [pc EXCEPT ![o] = "reject_delete"]
    /\ UNCHANGED <<loc, env, hist, daemonVars, fnVars, now>>

\* a variant that goes on with the admission after the delete
Run_RejectDelete_goes_on(o) ==
    /\ pc[o] = "reject_delete"
    /\ cr' = delete_cr(cr, o)
    /\ pc' = [pc EXCEPT ![o] = "ensure"]
    /\ UNCHANGED <<loc, env, hist, daemonVars, fnVars, now>>

Run_RejectDelete(o) ==
    /\ pc[o] = "reject_delete"
    /\ cr' = delete_cr(cr, o)
    /\ pc' = [pc EXCEPT ![o] = "done"]
    /\ loc' = [loc EXCEPT ![o] = InitLoc]
    /\ UNCHANGED <<env, hist, daemonVars, fnVars, now>>

\* ensure_service_account, ensure_commvault_scc, ensure_commcell_secret: an
\* error of the API server or a missing credential leaves run()
Run_Ensure(o) ==
    /\ pc[o] = "ensure"
    /\ \E ok \in BOOLEAN :
        /\ pc' = [pc EXCEPT ![o] = IF ok THEN "get_strategy" ELSE "raised"]
        /\ loc' = [loc EXCEPT ![o].exception = IF ok THEN @ ELSE "EnsureError"]
    /\ hist' = [hist EXCEPT ![o].ensure = @ + 1]
    /\ UNCHANGED <<cr, env, daemonVars, fnVars, now>>

\* get_strategy: the strategy of the operator, a ValueError for any other one
get_strategy(k) ==
    IF k.operator = "zalando" THEN "Zalando"
    ELSE IF k.operator = "cnpg" THEN "CNPG"
    ELSE "ValueError"

\* strategy = get_strategy(...): its ValueError leaves run()
Run_GetStrategy(o) ==
    /\ pc[o] = "get_strategy"
    /\ LET strategy == get_strategy(KindOf(o))
       IN  /\ pc' = [pc EXCEPT ![o] = IF strategy = "ValueError" THEN "raised"
                                      ELSE IF strategy = "CNPG" THEN "cnpg_read_pod"
                                      ELSE "get_pvc_name"]
           /\ loc' = [loc EXCEPT ![o].exception =
                                    IF strategy = "ValueError" THEN "ValueError" ELSE @,
                                  ![o].clone_id = now]
           /\ hist' = [hist EXCEPT ![o].strategy = @ \/ strategy # "ValueError"]
    /\ UNCHANGED <<cr, env, daemonVars, fnVars, now>>

\* the framework runs a create handler that raised once more
Run_Retry(o) ==
    /\ pc[o] = "raised"
    /\ loc[o].retries < MaxRetries
    /\ cr[o].present /\ ~cr[o].deletionTimestamp
    /\ pc' = [pc EXCEPT ![o] = "guard"]
    /\ loc' = [loc EXCEPT ![o].retries = @ + 1]
    /\ UNCHANGED <<cr, env, hist, daemonVars, fnVars, now>>

(***************************************************************************)
(* ZalandoOperationStrategy.execute                                        *)
(***************************************************************************)
\* the in-place branches of ZalandoOperationStrategy.execute
InPlace(o) == KindOf(o).operator = "zalando" /\ is_restore_in_place(KindOf(o))

\* the step s of an in-place restore has finished as intended
Logged(o, s) == IF InPlace(o) THEN Append(hist[o].steps, s) ELSE hist[o].steps

\* an exception leaves execute(); run() catches it
ExecRaise(o) ==
    /\ pc' = [pc EXCEPT ![o] = "exec_failed"]
    /\ hist' = [hist EXCEPT ![o].execute = "raised"]

\* execute() returns
ExecReturn(o, h) ==
    /\ pc' = [pc EXCEPT ![o] = "start_task"]
    /\ hist' = [h EXCEPT ![o].execute = "returned"]

\* get_pvc_name: the volume of the master pod, or of pod 0 of the StatefulSet
Ex_GetPvcName(o) ==
    /\ pc[o] = "get_pvc_name"
    /\ LET e == env[ClusterOf(o)]
           fromPod == IF KindOf(o).action = "backup" THEN 0..(e.pods - 1) ELSE {}
       IN  \E ok \in BOOLEAN, i \in fromPod \cup {-1} :
             IF ok /\ i >= 0
             THEN /\ loc' = [loc EXCEPT ![o].pvc_name = i]
                  /\ pc' = [pc EXCEPT ![o] = "read_source_pvc"]
                  /\ hist' = [hist EXCEPT ![o].execute = "running"]
             ELSE IF ok /\ e.sts        \* get_pvc0_from_sts
             THEN /\ loc' = [loc EXCEPT ![o].pvc_name = 0]
                  /\ pc' = [pc EXCEPT ![o] = "read_source_pvc"]
                  /\ hist' = [hist EXCEPT ![o].execute = "running"]
             ELSE /\ ExecRaise(o)
                  /\ UNCHANGED loc
    /\ UNCHANGED <<cr, env, daemonVars, fnVars, now>>

\* the name _create_target_pvc works on: <pvc>-clone-<id> for a backup; for a
\* restore the name of the source volume itself if is_restore_in_place(), else
\* <pvc>-restore-<id>
target_pvc_name(o) ==
    IF KindOf(o).action = "backup"
    THEN [type |-> "clone", op |-> o, idx |-> loc[o].pvc_name, id |-> loc[o].clone_id]
    ELSE IF is_restore_in_place(KindOf(o))
    THEN [type |-> "numbered", op |-> NoName, idx |-> loc[o].pvc_name, id |-> 0]
    ELSE [type |-> "restore", op |-> o, idx |-> loc[o].pvc_name, id |-> loc[o].clone_id]

\* a variant that quiesces the cluster for every restore
Ex_ReadSourcePvc_quiesces_every_restore(o) ==
    /\ pc[o] = "read_source_pvc"
    /\ LET e == env[ClusterOf(o)]
       IN  \E ok \in BOOLEAN :
             IF ok /\ e.pvc[loc[o].pvc_name] # "absent"
             THEN /\ pc' = [pc EXCEPT ![o] =
                              IF KindOf(o).action = "restore" THEN "record_replicas"
                              ELSE IF KindOf(o).action = "backup" THEN "b_resolve"
                              ELSE "wait_pvc_absent"]
                  /\ loc' = [loc EXCEPT ![o].target = target_pvc_name(o)]
                  /\ UNCHANGED hist
             ELSE /\ ExecRaise(o)
                  /\ UNCHANGED loc
    /\ UNCHANGED <<cr, env, daemonVars, fnVars, now>>

\* the storage parameters of the source volume; an in-place restore goes on to
\* quiesce the cluster, the others go to _create_target_pvc
Ex_ReadSourcePvc(o) ==
    /\ pc[o] = "read_source_pvc"
    /\ LET e == env[ClusterOf(o)]
       IN  \E ok \in BOOLEAN :
             IF ok /\ e.pvc[loc[o].pvc_name] # "absent"
             THEN /\ pc' = [pc EXCEPT ![o] =
                              IF InPlace(o) THEN "record_replicas"
                              ELSE IF KindOf(o).action = "backup" THEN "b_resolve"
                              ELSE "wait_pvc_absent"]
                  /\ loc' = [loc EXCEPT ![o].target = target_pvc_name(o)]
                  /\ UNCHANGED hist
             ELSE /\ ExecRaise(o)
                  /\ UNCHANGED loc
    /\ UNCHANGED <<cr, env, daemonVars, fnVars, now>>

(***************************************************************************)
(* CNPGOperationStrategy.execute: the volumes of pod <cluster>-1, a target  *)
(* volume for each, the helper workload; the cluster itself is left alone  *)
(***************************************************************************)
\* _create_target_pvcs, the read of pod <cluster>-1: the first instance and its
\* data volume, which the cluster state holds at index 0
Cnpg_ReadPod(o) ==
    /\ pc[o] = "cnpg_read_pod"
    /\ \E ok \in BOOLEAN :
         IF ok /\ env[ClusterOf(o)].pods >= 1
         THEN /\ loc' = [loc EXCEPT ![o].pvc_name = 0]
              /\ pc' = [pc EXCEPT ![o] = "cnpg_read_source"]
              /\ hist' = [hist EXCEPT ![o].execute = "running"]
         ELSE /\ ExecRaise(o)
              /\ UNCHANGED loc
    /\ UNCHANGED <<cr, env, daemonVars, fnVars, now>>

\* _create_target_pvcs, the read of the source volume, then _create_target_pvc
\* of CNPGBackup or CNPGRestore
Cnpg_ReadSourcePvc(o) ==
    /\ pc[o] = "cnpg_read_source"
    /\ \E ok \in BOOLEAN :
         IF ok /\ env[ClusterOf(o)].pvc[loc[o].pvc_name] # "absent"
         THEN /\ pc' = [pc EXCEPT ![o] = IF KindOf(o).action = "backup" THEN "b_resolve"
                                         ELSE "wait_pvc_absent"]
              /\ loc' = [loc EXCEPT ![o].target = target_pvc_name(o)]
              /\ UNCHANGED hist
         ELSE /\ ExecRaise(o)
              /\ UNCHANGED loc
    /\ UNCHANGED <<cr, env, daemonVars, fnVars, now>>

\* ZalandoApi.get_original_replicas: the Zalando CR, else the StatefulSet, at least 1
get_original_replicas(e, crOk, stsOk) ==
    LET raw == IF crOk THEN e.zinst
               ELSE IF stsOk /\ e.sts THEN e.replicas
               ELSE 0
    IN  IF raw < 1 THEN 1 ELSE raw

\* scale_zalando_cluster_to_zero_replicas, first part: remember the replica count
Ex_RecordReplicas(o) ==
    /\ pc[o] = "record_replicas"
    /\ \E crOk \in BOOLEAN, stsOk \in BOOLEAN :
        LET n == get_original_replicas(env[ClusterOf(o)], crOk, stsOk)
        IN  /\ loc' = [loc EXCEPT ![o].original_replicas = n]
            /\ cr' = patch_status(cr, o, [originalReplicas |-> PyInt(n)])
    /\ pc' = [pc EXCEPT ![o] = "scale_zero"]
    /\ hist' = [hist EXCEPT ![o].steps = Logged(o, "record")]
    /\ UNCHANGED <<env, daemonVars, fnVars, now>>

\* ZalandoApi.scale_zalando_cluster: the state it leaves and whether it raises
scale_zalando_cluster(e, replicas, crOk, stsOk) ==
    LET e1 == IF crOk THEN [e EXCEPT !.zinst = replicas] ELSE e
    IN  IF ~e1.sts THEN [env |-> e1, raised |-> FALSE]
        ELSE IF stsOk THEN [env |-> [e1 EXCEPT !.replicas = replicas], raised |-> FALSE]
        ELSE [env |-> e1, raised |-> TRUE]

\* second part: scale to 0; an error is logged and provisioning goes on
Ex_ScaleZero(o) ==
    /\ pc[o] = "scale_zero"
    /\ \E crOk \in BOOLEAN, stsOk \in BOOLEAN :
        LET r == scale_zalando_cluster(env[ClusterOf(o)], 0, crOk, stsOk)
        IN  /\ env' = [env EXCEPT ![ClusterOf(o)] = r.env]
            /\ pc' = [pc EXCEPT ![o] = IF r.raised THEN "list_pvcs" ELSE "wait_pods_gone"]
            /\ hist' = [hist EXCEPT ![o].steps = IF r.raised THEN @ ELSE Logged(o, "scale0")]
    /\ UNCHANGED <<cr, loc, daemonVars, fnVars, now>>

\* StatefulSetApi.wait_for_sts_pods_gone: TRUE when it returns, FALSE when it
\* gives up on its timeout
wait_for_sts_pods_gone(e, sts_name) == alive_pods(e, sts_name) = {}

\* third part: wait for the pods; a timeout is logged and provisioning goes on
Ex_WaitPodsGone(o) ==
    /\ pc[o] = "wait_pods_gone"
    /\ pc' = [pc EXCEPT ![o] = "list_pvcs"]
    /\ hist' = [hist EXCEPT ![o].steps =
                  IF wait_for_sts_pods_gone(env, <<ClusterOf(o)>>)
                  THEN Logged(o, "pods_gone") ELSE @]
    /\ UNCHANGED <<cr, loc, env, daemonVars, fnVars, now>>

\* StatefulSetApi.delete_all_sts_pvcs: read the StatefulSet, list the volumes and
\* keep those named <template>-<sts>-<digits>
Ex_ListPvcs(o) ==
    /\ pc[o] = "list_pvcs"
    /\ LET e == env[ClusterOf(o)]
       IN  \E ok \in BOOLEAN :
             IF ok /\ e.sts
             THEN LET found == {i \in PvcIdx : e.pvc[i] # "absent"}
                  IN  /\ loc' = [loc EXCEPT ![o].pvc_list = found]
                      /\ pc' = [pc EXCEPT ![o] =
                                  IF found = {} THEN "wait_pvc_absent" ELSE "delete_pvc"]
                      /\ hist' = [hist EXCEPT ![o].steps =
                                  IF found = {} THEN Logged(o, "delete_pvcs") ELSE @]
             ELSE /\ ExecRaise(o)
                  /\ UNCHANGED loc
    /\ UNCHANGED <<cr, env, daemonVars, fnVars, now>>

NextPvc(o) == CHOOSE i \in loc[o].pvc_list : \A j \in loc[o].pvc_list : i <= j

\* the loop of delete_all_sts_pvcs has handled volume i
PvcHandled(o, i) ==
    LET rest == loc[o].pvc_list \ {i}
    IN  /\ loc' = [loc EXCEPT ![o].pvc_list = rest]
        /\ pc' = [pc EXCEPT ![o] = IF rest = {} THEN "wait_pvc_absent" ELSE "delete_pvc"]
        /\ hist' = [hist EXCEPT ![o].steps =
                      IF rest = {} THEN Logged(o, "delete_pvcs") ELSE @]

\* StatefulSetApi.delete_pvc_and_wait, the delete request
Ex_DeletePvc(o) ==
    /\ pc[o] = "delete_pvc"
    /\ LET c == ClusterOf(o)
           i == NextPvc(o)
       IN  \E ok \in BOOLEAN :
             IF ~ok THEN ExecRaise(o) /\ UNCHANGED <<loc, env>>
             ELSE IF env[c].pvc[i] = "absent" THEN PvcHandled(o, i) /\ UNCHANGED env
             ELSE /\ env' = [env EXCEPT ![c].pvc[i] = "terminating"]
                  /\ pc' = [pc EXCEPT ![o] = "wait_pvc_deleted"]
                  /\ UNCHANGED <<loc, hist>>
    /\ UNCHANGED <<cr, daemonVars, fnVars, now>>

\* StatefulSetApi.delete_pvc_and_wait, the wait for the volume to disappear
Ex_WaitPvcDeleted(o) ==
    /\ pc[o] = "wait_pvc_deleted"
    /\ IF env[ClusterOf(o)].pvc[NextPvc(o)] = "absent"
       THEN PvcHandled(o, NextPvc(o))
       ELSE ExecRaise(o) /\ UNCHANGED loc
    /\ UNCHANGED <<cr, env, daemonVars, fnVars, now>>

\* the volume v exists in the cluster state e (present or terminating)
VolumeExists(e, v) ==
    IF v.type = "numbered" THEN e.pvc[v.idx] # "absent" ELSE v \in e.vols

\* BackupOperator.wait_for_pvc_absent, called by RestoreOperationStrategy._create_target_pvc
Ex_WaitPvcAbsent(o) ==
    /\ pc[o] = "wait_pvc_absent"
    /\ \E ok \in BOOLEAN :
         IF ok /\ ~VolumeExists(env[ClusterOf(o)], loc[o].target)
         THEN /\ pc' = [pc EXCEPT ![o] = "r_create_pvc"]
              /\ hist' = [hist EXCEPT ![o].steps = Logged(o, "pvc_absent")]
         ELSE ExecRaise(o)
    /\ UNCHANGED <<cr, loc, env, daemonVars, fnVars, now>>

\* the cluster state with the volume v created empty
WithVolume(e, v) ==
    IF v.type = "numbered" THEN [e EXCEPT !.pvc[v.idx] = "present"]
    ELSE [e EXCEPT !.vols = @ \cup {v}]

\* RestoreOperationStrategy._create_target_pvc, the create request:
\* "already exists" (409) and every other error raise kopf.TemporaryError
Ex_RestoreCreatePvc(o) ==
    /\ pc[o] = "r_create_pvc"
    /\ LET c == ClusterOf(o)
       IN  \E ok \in BOOLEAN :
             IF ok /\ ~VolumeExists(env[c], loc[o].target)
             THEN /\ env' = [env EXCEPT ![c] = WithVolume(@, loc[o].target)]
                  /\ pc' = [pc EXCEPT ![o] = "create_helper"]
                  /\ hist' = [hist EXCEPT ![o].steps = Logged(o, "create_pvc")]
             ELSE /\ pc' = [pc EXCEPT ![o] = "exec_failed"]
                  /\ hist' = [hist EXCEPT ![o].execute = "raised",
                                          ![o].alreadyExists = ok]
                  /\ UNCHANGED env
    /\ UNCHANGED <<cr, loc, daemonVars, fnVars, now>>

\* BackupOperationStrategy._create_target_pvc, first part: read the source volume
\* and resolve the snapshot class; an unresolved class is written to the status
Ex_BackupResolve(o) ==
    /\ pc[o] = "b_resolve"
    /\ \E readOk \in BOOLEAN, reason \in {"", "SnapshotClassNotFound", "SnapshotClassResolutionError"} :
         IF ~readOk \/ env[ClusterOf(o)].pvc[loc[o].pvc_name] = "absent"
         THEN ExecRaise(o) /\ UNCHANGED cr
         ELSE IF reason # ""
         THEN /\ cr' = patch_status(cr, o, [phase |-> "Failed", reason |-> reason,
                                            message |-> reason])
              /\ ExecRaise(o)
         ELSE /\ pc' = [pc EXCEPT ![o] = "b_create"]
              /\ UNCHANGED <<cr, hist>>
    /\ UNCHANGED <<loc, env, daemonVars, fnVars, now>>

\* the snapshot of a run: <clone volume name>-snap
SnapshotOf(o) == [op |-> o, id |-> loc[o].clone_id]

\* second part: the snapshot and the volume made from it; "already exists" is fine
Ex_BackupCreate(o) ==
    /\ pc[o] = "b_create"
    /\ LET c == ClusterOf(o)
       IN  \E snapOk \in BOOLEAN, pvcOk \in BOOLEAN :
             IF ~snapOk /\ SnapshotOf(o) \notin env[c].snaps
             THEN ExecRaise(o) /\ UNCHANGED env
             ELSE IF ~pvcOk /\ loc[o].target \notin env[c].vols
             THEN /\ env' = [env EXCEPT ![c].snaps = @ \cup {SnapshotOf(o)}]
                  /\ ExecRaise(o)
             ELSE /\ env' = [env EXCEPT ![c].snaps = @ \cup {SnapshotOf(o)},
                                        ![c].vols = @ \cup {loc[o].target}]
                  /\ pc' = [pc EXCEPT ![o] = "create_helper"]
                  /\ UNCHANGED hist
    /\ UNCHANGED <<cr, loc, daemonVars, fnVars, now>>

\* _determine_postgres_params never raises; _create_helper_statefulset:
\* "already exists" is fine and leaves the existing workload as it is
Ex_CreateHelper(o) ==
    /\ pc[o] = "create_helper"
    /\ LET c == ClusterOf(o)
       IN  \E ok \in BOOLEAN :
             IF env[c].helper.present
             THEN /\ UNCHANGED env
                  /\ IF InPlace(o)
                     THEN /\ pc' = [pc EXCEPT ![o] = "verify_sts"]
                          /\ hist' = [hist EXCEPT ![o].steps = Logged(o, "helper")]
                     ELSE ExecReturn(o, hist)
             ELSE IF ok
             THEN /\ env' = [env EXCEPT ![c].helper =
                               [present |-> TRUE, replicas |-> 1, owner |-> o,
                                volume |-> loc[o].target]]
                  /\ IF InPlace(o)
                     THEN /\ pc' = [pc EXCEPT ![o] = "verify_sts"]
                          /\ hist' = [hist EXCEPT ![o].steps = Logged(o, "helper")]
                     ELSE ExecReturn(o, hist)
             ELSE ExecRaise(o) /\ UNCHANGED env
    /\ UNCHANGED <<cr, loc, daemonVars, fnVars, now>>

\* what ensure_cluster_quiesced read of the StatefulSet
SeenSts(e) == [sts |-> IF e.sts THEN "read" ELSE "absent", replicas |-> e.replicas, pods |-> -1]

\* a variant that accepts whatever replica count it reads
Ex_VerifySts_any(o) ==
    /\ pc[o] = "verify_sts"
    /\ LET e == env[ClusterOf(o)]
       IN  \E ok \in BOOLEAN :
             IF ~e.sts
             THEN ExecReturn(o, [hist EXCEPT ![o].verify = SeenSts(e),
                                             ![o].steps = Logged(o, "verify")])
             ELSE IF ~ok THEN ExecRaise(o)
             ELSE /\ pc' = [pc EXCEPT ![o] = "verify_pods"]
                  /\ hist' = [hist EXCEPT ![o].verify = SeenSts(e)]
    /\ UNCHANGED <<cr, loc, env, daemonVars, fnVars, now>>

\* ensure_cluster_quiesced, the read of the StatefulSet: not found is fine,
\* any other error and a replica count other than 0 are retryable failures
Ex_VerifySts(o) ==
    /\ pc[o] = "verify_sts"
    /\ LET e == env[ClusterOf(o)]
       IN  \E ok \in BOOLEAN :
             IF ~e.sts
             THEN ExecReturn(o, [hist EXCEPT ![o].verify = SeenSts(e),
                                             ![o].steps = Logged(o, "verify")])
             ELSE IF ~ok THEN ExecRaise(o)
             ELSE IF e.replicas # 0
             THEN /\ pc' = [pc EXCEPT ![o] = "exec_failed"]
                  /\ hist' = [hist EXCEPT ![o].execute = "raised",
                                          ![o].verify = SeenSts(e)]
             ELSE /\ pc' = [pc EXCEPT ![o] = "verify_pods"]
                  /\ hist' = [hist EXCEPT ![o].verify = SeenSts(e)]
    /\ UNCHANGED <<cr, loc, env, daemonVars, fnVars, now>>

\* ensure_cluster_quiesced, the wait for the pods
Ex_VerifyPods(o) ==
    /\ pc[o] = "verify_pods"
    /\ \E ok \in BOOLEAN :
         IF ok /\ wait_for_sts_pods_gone(env, <<ClusterOf(o)>>)
         THEN ExecReturn(o, [hist EXCEPT ![o].verify.pods = env[ClusterOf(o)].pods,
                                         ![o].steps = Logged(o, "verify")])
         ELSE ExecRaise(o)
    /\ UNCHANGED <<cr, loc, env, daemonVars, fnVars, now>>

(***************************************************************************)
(* BackupOperator.run: after provisioning                                  *)
(***************************************************************************)
Timestamp == "T"                 \* get_utc_timestamp()
JobOf(o) == <<"J", o>>           \* the job id the vendor hands out for the task of o

\* a variant in which the failure of provisioning does not end run()
Run_ExecFailedPatch_goes_on(o) ==
    /\ pc[o] = "exec_failed"
    /\ cr' = patch_status(cr, o, [phase |-> "Failed", reason |-> "StrategyExecutionError",
                                  message |-> "strategy", finishedAt |-> Timestamp])
    /\ pc' = [pc EXCEPT ![o] = "start_task"]
    /\ UNCHANGED <<loc, env, hist, daemonVars, fnVars, now>>

\* execute() raised: the failure is written to the status and run() returns
Run_ExecFailedPatch(o) ==
    /\ pc[o] = "exec_failed"
    /\ cr' = patch_status(cr, o, [phase |-> "Failed", reason |-> "StrategyExecutionError",
                                  message |-> "strategy", finishedAt |-> Timestamp])
    /\ pc' = [pc EXCEPT ![o] = "done"]
    /\ loc' = [loc EXCEPT ![o] = InitLoc]
    /\ UNCHANGED <<env, hist, daemonVars, fnVars, now>>

\* strategy.start_commvault_task(): a job id or a CommvaultApiException
Run_StartTask(o) ==
    /\ pc[o] = "start_task"
    /\ \E ok \in BOOLEAN :
        /\ loc' = [loc EXCEPT ![o].job_id = IF ok THEN JobOf(o) ELSE @]
        /\ pc' = [pc EXCEPT ![o] = IF ok THEN "initial_status" ELSE "task_failed"]
        /\ hist' = [hist EXCEPT ![o].tasks = @ + 1, ![o].vendor = @ + 1,
                                ![o].taskRaised = ~ok,
                                ![o].steps = IF ok THEN Logged(o, "task") ELSE @]
    /\ UNCHANGED <<cr, env, daemonVars, fnVars, now>>

Run_TaskFailedPatch(o) ==
    /\ pc[o] = "task_failed"
    /\ cr' = patch_status(cr, o, [phase |-> "Failed", reason |-> "CommvaultNoJob",
                                  message |-> "task", finishedAt |-> Timestamp])
    /\ pc' = [pc EXCEPT ![o] = "done"]
    /\ loc' = [loc EXCEPT ![o] = InitLoc]
    /\ UNCHANGED <<env, hist, daemonVars, fnVars, now>>

\* what the vendor may answer to a status query; None stands for a failed query
PollTexts == {PyNone, PyStr(rRunning), PyStr(rWaiting), PyStr(rCompletedErr),
              PyStr(rFailed), PyStr(rfailed)}

\* a variant that reports a failed query as the status Failed
get_job_status_failed(answer) ==
    IF answer = PyNone THEN CommvaultJobStatus(PyStr(rFailed)) ELSE CommvaultJobStatus(answer)

\* CommvaultApi.get_job_status_by_id: the status of the job, or of None when
\* the query raised (the error is logged)
get_job_status_by_id(answer) == CommvaultJobStatus(answer)

\* a variant that takes the status of a failed query for a missing one
Run_InitialStatus_or_pending(o) ==
    /\ pc[o] = "initial_status"
    /\ \E answer \in PollTexts :
        LET st == get_job_status_by_id(answer)
        IN  loc' = [loc EXCEPT ![o].answer = answer,
                               ![o].initial_status = IF ~is_unknown(st) THEN st
                                                     ELSE PyStr(rPending)]
    /\ pc' = [pc EXCEPT ![o] = "initial_patch"]
    /\ hist' = [hist EXCEPT ![o].vendor = @ + 1]
    /\ UNCHANGED <<cr, env, daemonVars, fnVars, now>>

\* initial_status = get_job_status_by_id(job_id) or "Pending"
Run_InitialStatus(o) ==
    /\ pc[o] = "initial_status"
    /\ \E answer \in PollTexts :
        LET st == get_job_status_by_id(answer)
        IN  loc' = [loc EXCEPT ![o].answer = answer,
                               ![o].initial_status = IF truthy(st) THEN st
                                                     ELSE PyStr(rPending)]
    /\ pc' = [pc EXCEPT ![o] = "initial_patch"]
    /\ hist' = [hist EXCEPT ![o].vendor = @ + 1]
    /\ UNCHANGED <<cr, env, daemonVars, fnVars, now>>

Run_InitialPatch(o) ==
    /\ pc[o] = "initial_patch"
    /\ cr' = patch_status(cr, o,
                [phase |-> map_phase_from_status(loc[o].initial_status),
                 commvaultStatus |-> str(loc[o].initial_status),
                 action |-> KindOf(o).action, operator |-> KindOf(o).operator,
                 restore_mode |-> KindOf(o).restore_mode,
                 startedAt |-> Timestamp, jobId |-> loc[o].job_id])
    /\ pc' = [pc EXCEPT ![o] = "done"]
    /\ loc' = [loc EXCEPT ![o] = InitLoc]
    /\ UNCHANGED <<env, hist, daemonVars, fnVars, now>>

(***************************************************************************)
(* wait_and_cleanup: the daemon of an Operation that has a jobId           *)
(***************************************************************************)
\* a variant whose daemon is spawned for every Operation, with or without jobId
Daemon_Start_any(o) ==
    /\ dpc[o] = "off"
    /\ cr[o].present
    /\ LET body == [cluster |-> cr[o].cluster, kind |-> cr[o].kind,
                    originalReplicas |-> get(cr[o].status, "originalReplicas", PyNone),
                    deletionTimestamp |-> cr[o].deletionTimestamp]
           last == IF "commvaultStatus" \in DOMAIN cr[o].status
                   THEN PyStr(cr[o].status["commvaultStatus"]) ELSE PyNone
       IN  /\ dloc' = [dloc EXCEPT ![o] =
                        IF body.deletionTimestamp THEN InitDloc
                        ELSE [InitDloc EXCEPT !.body = body,
                                              !.last_status = last, !.status = last]]
           /\ dpc' = [dpc EXCEPT ![o] = IF body.deletionTimestamp THEN "exited" ELSE "loop"]
    /\ UNCHANGED <<cr, pc, loc, env, stopped, hist, fnVars, now>>

\* the daemon is spawned with the body of the Operation as it is then
Daemon_Start(o) ==
    /\ dpc[o] = "off"
    /\ cr[o].present
    /\ "jobId" \in DOMAIN cr[o].status
    /\ LET body == [cluster |-> cr[o].cluster, kind |-> cr[o].kind,
                    originalReplicas |-> get(cr[o].status, "originalReplicas", PyNone),
                    deletionTimestamp |-> cr[o].deletionTimestamp]
           last == IF "commvaultStatus" \in DOMAIN cr[o].status
                   THEN PyStr(cr[o].status["commvaultStatus"]) ELSE PyNone
       IN  /\ dloc' = [dloc EXCEPT ![o] =
                        IF body.deletionTimestamp THEN InitDloc
                        ELSE [InitDloc EXCEPT !.body = body,
                                              !.last_status = last, !.status = last]]
           /\ dpc' = [dpc EXCEPT ![o] = IF body.deletionTimestamp THEN "exited" ELSE "loop"]
    /\ UNCHANGED <<cr, pc, loc, env, stopped, hist, fnVars, now>>

\* the terminal states the daemon's description names: Completed*, Failed, Killed
TerminalStatus(answer) ==
    /\ answer.kind = "str"
    /\ \/ startswith(lower(answer.s), sCompleted)
       \/ answer.s \in {rFailed, rKilled}

\* a variant that does not look at the stop signal
Daemon_Poll_ignores_stop(o) ==
    /\ dpc[o] = "loop"
    /\ IF dloc[o].polls >= MaxPolls
       THEN /\ dpc' = [dpc EXCEPT ![o] = "finalize"]
            /\ hist' = [hist EXCEPT ![o].timedOut = TRUE]
            /\ UNCHANGED dloc
       ELSE IF FALSE
       THEN /\ dpc' = [dpc EXCEPT ![o] = "exited"]
            /\ dloc' = [dloc EXCEPT ![o] = InitDloc]
            /\ UNCHANGED hist
       ELSE \E answer \in PollTexts :
            /\ dloc' = [dloc EXCEPT ![o].answer = answer,
                                    ![o].status = get_job_status_by_id(answer),
                                    ![o].polls = @ + 1]
            /\ dpc' = [dpc EXCEPT ![o] = "compare"]
            /\ hist' = [hist EXCEPT ![o].vendor = @ + 1,
                                    ![o].terminal =
                                        IF @ = PyNone /\ TerminalStatus(answer)
                                        THEN get_job_status_by_id(answer) ELSE @,
                                    ![o].pollsAfter = IF hist[o].terminal # PyNone
                                                      THEN @ + 1 ELSE @]
    /\ UNCHANGED <<cr, pc, loc, env, stopped, fnVars, now>>

\* a variant that returns when the time budget is used up
Daemon_Poll_timeout_exits(o) ==
    /\ dpc[o] = "loop"
    /\ IF dloc[o].polls >= MaxPolls
       THEN /\ dpc' = [dpc EXCEPT ![o] = "exited"]
            /\ hist' = [hist EXCEPT ![o].timedOut = TRUE]
            /\ dloc' = [dloc EXCEPT ![o] = InitDloc]
       ELSE IF stopped[o]
       THEN /\ dpc' = [dpc EXCEPT ![o] = "exited"]
            /\ dloc' = [dloc EXCEPT ![o] = InitDloc]
            /\ UNCHANGED hist
       ELSE \E answer \in PollTexts :
            /\ dloc' = [dloc EXCEPT ![o].answer = answer,
                                    ![o].status = get_job_status_by_id(answer),
                                    ![o].polls = @ + 1]
            /\ dpc' = [dpc EXCEPT ![o] = "compare"]
            /\ hist' = [hist EXCEPT ![o].vendor = @ + 1,
                                    ![o].terminal =
                                        IF @ = PyNone /\ TerminalStatus(answer)
                                        THEN get_job_status_by_id(answer) ELSE @,
                                    ![o].pollsAfter = IF hist[o].terminal # PyNone
                                                      THEN @ + 1 ELSE @]
    /\ UNCHANGED <<cr, pc, loc, env, stopped, fnVars, now>>

\* head of the loop: the time budget, the stop signal, then the status query
Daemon_Poll(o) ==
    /\ dpc[o] = "loop"
    /\ IF dloc[o].polls >= MaxPolls
       THEN /\ dpc' = [dpc EXCEPT ![o] = "finalize"]
            /\ hist' = [hist EXCEPT ![o].timedOut = TRUE]
            /\ UNCHANGED dloc
       ELSE IF stopped[o]
       THEN /\ dpc' = [dpc EXCEPT ![o] = "exited"]
            /\ dloc' = [dloc EXCEPT ![o] = InitDloc]
            /\ UNCHANGED hist
       ELSE \E answer \in PollTexts :
            /\ dloc' = [dloc EXCEPT ![o].answer = answer,
                                    ![o].status = get_job_status_by_id(answer),
                                    ![o].polls = @ + 1]
            /\ dpc' = [dpc EXCEPT ![o] = "compare"]
            /\ hist' = [hist EXCEPT ![o].vendor = @ + 1,
                                    ![o].terminal =
                                        IF @ = PyNone /\ TerminalStatus(answer)
                                        THEN get_job_status_by_id(answer) ELSE @,
                                    ![o].pollsAfter = IF hist[o].terminal # PyNone
                                                      THEN @ + 1 ELSE @]
    /\ UNCHANGED <<cr, pc, loc, env, stopped, fnVars, now>>

\* a variant that goes on polling after a terminal status
Daemon_Compare_no_break(o) ==
    /\ dpc[o] = "compare"
    /\ LET st == dloc[o].status
           changed == ~status_eq(st, dloc[o].last_status)
       IN  /\ cr' = IF changed
                    THEN patch_status(cr, o, [commvaultStatus |-> str(st),
                                              phase |-> map_phase_from_status(st)])
                    ELSE cr
           /\ dloc' = [dloc EXCEPT ![o].last_status = IF changed THEN st ELSE @]
           /\ hist' = [hist EXCEPT ![o].loopWrites = IF changed THEN @ + 1 ELSE @]
           /\ dpc' = [dpc EXCEPT ![o] = "sleep"]
    /\ UNCHANGED <<pc, loc, env, stopped, fnVars, now>>

\* a variant that writes the status after every poll
Daemon_Compare_every_poll(o) ==
    /\ dpc[o] = "compare"
    /\ LET st == dloc[o].status
       IN  /\ cr' = patch_status(cr, o, [commvaultStatus |-> str(st),
                                         phase |-> map_phase_from_status(st)])
           /\ dloc' = [dloc EXCEPT ![o].last_status = st]
           /\ hist' = [hist EXCEPT ![o].loopWrites = @ + 1]
           /\ dpc' = [dpc EXCEPT ![o] = IF is_terminal(st) THEN "finalize" ELSE "sleep"]
    /\ UNCHANGED <<pc, loc, env, stopped, fnVars, now>>

\* the status has changed: write it; a terminal status ends the loop. No call
\* of an iteration raises (get_job_status_by_id and patch_status catch every
\* Exception themselves), so the except branch around the loop is never taken.
Daemon_Compare(o) ==
    /\ dpc[o] = "compare"
    /\ LET st == dloc[o].status
           changed == ~status_eq(st, dloc[o].last_status)
       IN  /\ cr' = IF changed
                    THEN patch_status(cr, o, [commvaultStatus |-> str(st),
                                              phase |-> map_phase_from_status(st)])
                    ELSE cr
           /\ dloc' = [dloc EXCEPT ![o].last_status = IF changed THEN st ELSE @]
           /\ hist' = [hist EXCEPT ![o].loopWrites = IF changed THEN @ + 1 ELSE @]
           /\ dpc' = [dpc EXCEPT ![o] = IF is_terminal(st) THEN "finalize" ELSE "sleep"]
    /\ UNCHANGED <<pc, loc, env, stopped, fnVars, now>>

\* time.sleep(poll_seconds)
Daemon_Sleep(o) ==
    /\ dpc[o] = "sleep"
    /\ dpc' = [dpc EXCEPT ![o] = "loop"]
    /\ UNCHANGED <<cr, pc, loc, dloc, env, stopped, hist, fnVars, now>>

DecimalDigits == <<"0", "1", "2", "3", "4", "5", "6", "7", "8", "9">>
IsDigit(ch) == \E d \in 1..10 : DecimalDigits[d] = ch
DigitOf(ch) == (CHOOSE d \in 1..10 : DecimalDigits[d] = ch) - 1

RECURSIVE digits_value(_)
digits_value(s) ==
    IF s = <<>> THEN 0
    ELSE 10 * digits_value(SubSeq(s, 1, Len(s) - 1)) + DigitOf(s[Len(s)])

\* int(v): a number as it is, a text of digits with an optional sign by its
\* value; ok is FALSE where int() raises TypeError or ValueError
py_int(v) ==
    IF v.kind = "int" THEN [ok |-> TRUE, n |-> v.n]
    ELSE IF v.kind = "str"
    THEN LET neg == v.s # <<>> /\ v.s[1] = "-"
             body == IF neg THEN Tail(v.s) ELSE v.s
         IN  IF body # <<>> /\ \A i \in 1..Len(body) : IsDigit(body[i])
             THEN [ok |-> TRUE, n |-> IF neg THEN 0 - digits_value(body) ELSE digits_value(body)]
             ELSE [ok |-> FALSE, n |-> 0]
    ELSE [ok |-> FALSE, n |-> 0]

\* a variant that takes the recorded number as it is
desired_replicas_unclamped(originalReplicas) ==
    LET raw == IF truthy(originalReplicas) THEN originalReplicas ELSE PyInt(1)
        r == py_int(raw)
    IN  IF r.ok THEN r.n ELSE 1

\* the replica count finalize restores: status.get("originalReplicas") or 1,
\* through int(), at least 1
desired_replicas(originalReplicas) ==
    LET raw == IF truthy(originalReplicas) THEN originalReplicas ELSE PyInt(1)
        r == py_int(raw)
        n == IF r.ok THEN r.n ELSE 1
    IN  IF n < 1 THEN 1 ELSE n

\* a variant whose finalize does not look at the outcome of the job
Daemon_Finalize_any_outcome(o) ==
    /\ dpc[o] = "finalize"
    /\ LET st == dloc[o].status
           body == dloc[o].body
           recover == body.kind.operator = "zalando" /\ is_restore_in_place(body.kind)
       IN  /\ dloc' = [dloc EXCEPT ![o].phase = IF is_success(st) THEN "Succeeded" ELSE "Failed",
                                   ![o].desired_replicas =
                                        IF recover THEN desired_replicas(body.originalReplicas) ELSE @]
           /\ dpc' = [dpc EXCEPT ![o] = IF recover THEN "f_scale_helper" ELSE "final_patch"]
           /\ hist' = [hist EXCEPT ![o].finalized = Append(@, st)]
    /\ UNCHANGED <<cr, pc, loc, env, stopped, fnVars, now>>

\* after the loop: the final phase, then BackupOperator.finalize, which acts
\* only on a successful zalando in-place restore
Daemon_Finalize(o) ==
    /\ dpc[o] = "finalize"
    /\ LET st == dloc[o].status
           body == dloc[o].body
           recover == is_success(st) /\ body.kind.operator = "zalando"
                        /\ is_restore_in_place(body.kind)
       IN  /\ dloc' = [dloc EXCEPT ![o].phase = IF is_success(st) THEN "Succeeded" ELSE "Failed",
                                   ![o].desired_replicas =
                                        IF recover THEN desired_replicas(body.originalReplicas) ELSE @]
           /\ dpc' = [dpc EXCEPT ![o] = IF recover THEN "f_scale_helper" ELSE "final_patch"]
           /\ hist' = [hist EXCEPT ![o].finalized = Append(@, st)]
    /\ UNCHANGED <<cr, pc, loc, env, stopped, fnVars, now>>

(***************************************************************************)
(* BackupOperator.finalize: recovery after a successful in-place restore   *)
(***************************************************************************)
BodyCluster(o) == dloc[o].body.cluster

\* STEP 0: stop the helper workload; an error is ignored
Fin_ScaleHelper(o) ==
    /\ dpc[o] = "f_scale_helper"
    /\ LET c == BodyCluster(o)
       IN  \E ok \in BOOLEAN :
             IF ok /\ env[c].helper.present
             THEN /\ env' = [env EXCEPT ![c].helper.replicas = 0]
                  /\ dpc' = [dpc EXCEPT ![o] = "f_wait_helper"]
                  /\ hist' = [hist EXCEPT ![o].fin = Append(@, "helper0")]
             ELSE /\ dpc' = [dpc EXCEPT ![o] = "f_scale_one"]
                  /\ hist' = [hist EXCEPT ![o].finFailed = @ \cup {"helper0"}]
                  /\ UNCHANGED env
    /\ UNCHANGED <<cr, pc, loc, dloc, stopped, fnVars, now>>

\* STEP 0: wait for the pods of the helper workload; a timeout is ignored
Fin_WaitHelper(o) ==
    /\ dpc[o] = "f_wait_helper"
    /\ dpc' = [dpc EXCEPT ![o] = "f_scale_one"]
    /\ hist' = IF wait_for_sts_pods_gone(env, get_operation_id(BodyCluster(o)))
               THEN [hist EXCEPT ![o].fin = Append(@, "helper_gone")]
               ELSE [hist EXCEPT ![o].finFailed = @ \cup {"helper_gone"}]
    /\ UNCHANGED <<cr, pc, loc, dloc, env, stopped, fnVars, now>>

\* a variant in which an error of STEP 1 leaves the daemon
Fin_ScaleOne_escalates(o) ==
    /\ dpc[o] = "f_scale_one"
    /\ \E crOk \in BOOLEAN, stsOk \in BOOLEAN :
        LET r == scale_zalando_cluster(env[BodyCluster(o)], 1, crOk, stsOk)
        IN  /\ env' = [env EXCEPT ![BodyCluster(o)] = r.env]
            /\ dpc' = [dpc EXCEPT ![o] = IF r.raised THEN "exited" ELSE "f_wait_ready"]
            /\ dloc' = [dloc EXCEPT ![o] = IF r.raised THEN InitDloc ELSE @]
            /\ hist' = IF r.raised
                       THEN [hist EXCEPT ![o].finFailed = @ \cup {"scale1"}]
                       ELSE [hist EXCEPT ![o].fin = Append(@, "scale1"),
                                         ![o].finFailed = IF crOk THEN @ ELSE @ \cup {"cr1"}]
    /\ UNCHANGED <<cr, pc, loc, stopped, fnVars, now>>

\* STEP 1: start the real cluster with one replica; an error ends finalize
Fin_ScaleOne(o) ==
    /\ dpc[o] = "f_scale_one"
    /\ \E crOk \in BOOLEAN, stsOk \in BOOLEAN :
        LET r == scale_zalando_cluster(env[BodyCluster(o)], 1, crOk, stsOk)
        IN  /\ env' = [env EXCEPT ![BodyCluster(o)] = r.env]
            /\ dpc' = [dpc EXCEPT ![o] = IF r.raised THEN "final_patch" ELSE "f_wait_ready"]
            /\ hist' = IF r.raised
                       THEN [hist EXCEPT ![o].finFailed = @ \cup {"scale1"}]
                       ELSE [hist EXCEPT ![o].fin = Append(@, "scale1"),
                                         ![o].finFailed = IF crOk THEN @ ELSE @ \cup {"cr1"}]
    /\ UNCHANGED <<cr, pc, loc, dloc, stopped, fnVars, now>>

\* STEP 2: wait_for_pod_ready(pod 0); a timeout or an API error ends finalize
Fin_WaitReady(o) ==
    /\ dpc[o] = "f_wait_ready"
    /\ \E ok \in BOOLEAN :
        IF ok /\ env[BodyCluster(o)].pods >= 1
        THEN /\ dpc' = [dpc EXCEPT ![o] = "f_refresh"]
             /\ hist' = [hist EXCEPT ![o].fin = Append(@, "ready")]
        ELSE /\ dpc' = [dpc EXCEPT ![o] = "final_patch"]
             /\ hist' = [hist EXCEPT ![o].finFailed = @ \cup {"ready"}]
    /\ UNCHANGED <<cr, pc, loc, dloc, env, stopped, fnVars, now>>

\* STEP 3: run_patronictl_remove in pod 0; an ApiException is logged there, any
\* other error ends finalize
Fin_Refresh(o) ==
    /\ dpc[o] = "f_refresh"
    /\ \E res \in {"ok", "ApiException", "Exception"} :
        IF res = "Exception"
        THEN /\ dpc' = [dpc EXCEPT ![o] = "final_patch"]
             /\ hist' = [hist EXCEPT ![o].finFailed = @ \cup {"refresh"}]
        ELSE /\ dpc' = [dpc EXCEPT ![o] = "f_scale_back"]
             /\ hist' = IF res = "ok" THEN [hist EXCEPT ![o].fin = Append(@, "refresh")]
                        ELSE [hist EXCEPT ![o].finFailed = @ \cup {"refresh"}]
    /\ UNCHANGED <<cr, pc, loc, dloc, env, stopped, fnVars, now>>

\* STEP 4: back to the recorded replica count if that is more than 1
Fin_ScaleBack(o) ==
    /\ dpc[o] = "f_scale_back"
    /\ \E crOk \in BOOLEAN, stsOk \in BOOLEAN :
        LET n == dloc[o].desired_replicas
            r == scale_zalando_cluster(env[BodyCluster(o)], n, crOk, stsOk)
        IN  IF n > 1
            THEN /\ env' = [env EXCEPT ![BodyCluster(o)] = r.env]
                 /\ hist' = IF r.raised
                            THEN [hist EXCEPT ![o].finFailed = @ \cup {"scale_back"}]
                            ELSE [hist EXCEPT ![o].fin = Append(@, "scale_back"),
                                              ![o].finFailed = IF crOk THEN @ ELSE @ \cup {"cr_back"}]
            ELSE UNCHANGED <<env, hist>>
    /\ dpc' = [dpc EXCEPT ![o] = "final_patch"]
    /\ UNCHANGED <<cr, pc, loc, dloc, stopped, fnVars, now>>

\* the final status update
Daemon_FinalPatch(o) ==
    /\ dpc[o] = "final_patch"
    /\ cr' = patch_status(cr, o, [phase |-> dloc[o].phase,
                                  commvaultStatus |-> str(dloc[o].status),
                                  finishedAt |-> Timestamp])
    /\ dpc' = [dpc EXCEPT ![o] = "delete"]
    /\ hist' = [hist EXCEPT ![o].finalPatch = @ + 1]
    /\ UNCHANGED <<pc, loc, dloc, env, stopped, fnVars, now>>

\* a variant that deletes the Operation whatever the outcome
Daemon_Delete_always(o) ==
    /\ dpc[o] = "delete"
    /\ cr' = delete_cr(cr, o)
    /\ hist' = [hist EXCEPT ![o].deleteCalls = @ + 1]
    /\ dpc' = [dpc EXCEPT ![o] = "exited"]
    /\ dloc' = [dloc EXCEPT ![o] = InitDloc]
    /\ UNCHANGED <<pc, loc, env, stopped, fnVars, now>>

\* delete the Operation on success
Daemon_Delete(o) ==
    /\ dpc[o] = "delete"
    /\ IF is_success(dloc[o].status)
       THEN /\ cr' = delete_cr(cr, o)
            /\ hist' = [hist EXCEPT ![o].deleteCalls = @ + 1]
       ELSE UNCHANGED <<cr, hist>>
    /\ dpc' = [dpc EXCEPT ![o] = "exited"]
    /\ dloc' = [dloc EXCEPT ![o] = InitDloc]
    /\ UNCHANGED <<pc, loc, env, stopped, fnVars, now>>

(***************************************************************************)
(* The environment: StatefulSet controller, volume protection, Zalando     *)
(* operator                                                                *)
(***************************************************************************)
\* the helper pod holds the numbered volume i of cluster state e
HeldByHelper(e, i) ==
    e.hpod /\ e.helper.volume.type = "numbered" /\ e.helper.volume.idx = i

\* the StatefulSet controller removes the pod with the highest ordinal
PodExit(c) ==
    /\ env[c].pods > 0
    /\ ~env[c].sts \/ env[c].pods > env[c].replicas
    /\ env' = [env EXCEPT ![c].pods = @ - 1]
    /\ UNCHANGED <<cr, pc, loc, hist, daemonVars, fnVars, now>>

\* the StatefulSet controller starts the next pod, creating its volume from
\* the template if there is none; an exclusive-write volume has one user
PodStart(c) ==
    /\ env[c].sts
    /\ env[c].pods < env[c].replicas
    /\ env[c].pods \in PvcIdx
    /\ env[c].pvc[env[c].pods] # "terminating"
    /\ ~HeldByHelper(env[c], env[c].pods)
    /\ env' = [env EXCEPT ![c].pvc[env[c].pods] = "present", ![c].pods = @ + 1]
    /\ UNCHANGED <<cr, pc, loc, hist, daemonVars, fnVars, now>>

\* a terminating volume disappears when no pod uses it any more
PvcGone(c, i) ==
    /\ env[c].pvc[i] = "terminating"
    /\ i >= env[c].pods
    /\ ~HeldByHelper(env[c], i)
    /\ env' = [env EXCEPT ![c].pvc[i] = "absent"]
    /\ UNCHANGED <<cr, pc, loc, hist, daemonVars, fnVars, now>>

\* the Zalando operator makes the StatefulSet follow spec.numberOfInstances
ZalandoSync(c) ==
    /\ env[c].sts
    /\ env[c].replicas # env[c].zinst
    /\ env' = [env EXCEPT ![c].replicas = env[c].zinst]
    /\ UNCHANGED <<cr, pc, loc, hist, daemonVars, fnVars, now>>

HelperPodStart(c) ==
    /\ env[c].helper.present
    /\ env[c].helper.replicas >= 1
    /\ ~env[c].hpod
    /\ LET v == env[c].helper.volume
       IN  IF v.type = "numbered"
           THEN env[c].pvc[v.idx] = "present" /\ v.idx >= env[c].pods
           ELSE v \in env[c].vols
    /\ env' = [env EXCEPT ![c].hpod = TRUE]
    /\ UNCHANGED <<cr, pc, loc, hist, daemonVars, fnVars, now>>

HelperPodExit(c) ==
    /\ env[c].hpod
    /\ ~env[c].helper.present \/ env[c].helper.replicas = 0
    /\ env' = [env EXCEPT ![c].hpod = FALSE]
    /\ UNCHANGED <<cr, pc, loc, hist, daemonVars, fnVars, now>>

(***************************************************************************)
(* Specification of the operator                                           *)
(***************************************************************************)
\* the admission steps of the Operations ops
Admission(ops, clusters, kinds) ==
    \/ \E o \in ops, c \in clusters, k \in kinds : CreateCR(o, c, k)
    \/ \E o \in ops : UserDelete(o)
    \/ \E o \in ops : RemoveCR(o)
    \/ \E o \in ops : Run_Guard(o)
    \/ \E o \in ops : Run_RejectPatch(o)
    \/ \E o \in ops : Run_RejectDelete(o)
    \/ \E o \in ops : Run_Ensure(o)
    \/ \E o \in ops : Run_GetStrategy(o)
    \/ \E o \in ops : Run_Retry(o)

\* provisioning, the vendor task and the daemon of the Operations ops
Lifecycle(ops) ==
    \/ \E o \in ops : Ex_GetPvcName(o)
    \/ \E o \in ops : Ex_ReadSourcePvc(o)
    \/ \E o \in ops : Ex_RecordReplicas(o)
    \/ \E o \in ops : Ex_ScaleZero(o)
    \/ \E o \in ops : Ex_WaitPodsGone(o)
    \/ \E o \in ops : Ex_ListPvcs(o)
    \/ \E o \in ops : Ex_DeletePvc(o)
    \/ \E o \in ops : Ex_WaitPvcDeleted(o)
    \/ \E o \in ops : Ex_WaitPvcAbsent(o)
    \/ \E o \in ops : Ex_RestoreCreatePvc(o)
    \/ \E o \in ops : Ex_BackupResolve(o)
    \/ \E o \in ops : Ex_BackupCreate(o)
    \/ \E o \in ops : Ex_CreateHelper(o)
    \/ \E o \in ops : Ex_VerifySts(o)
    \/ \E o \in ops : Ex_VerifyPods(o)
    \/ \E o \in ops : Run_ExecFailedPatch(o)
    \/ \E o \in ops : Run_StartTask(o)
    \/ \E o \in ops : Run_TaskFailedPatch(o)
    \/ \E o \in ops : Run_InitialStatus(o)
    \/ \E o \in ops : Run_InitialPatch(o)
    \/ \E o \in ops : Daemon_Start(o)
    \/ \E o \in ops : Daemon_Poll(o)
    \/ \E o \in ops : Daemon_Compare(o)
    \/ \E o \in ops : Daemon_Sleep(o)
    \/ \E o \in ops : Daemon_Finalize(o)
    \/ \E o \in ops : Fin_ScaleHelper(o)
    \/ \E o \in ops : Fin_WaitHelper(o)
    \/ \E o \in ops : Fin_ScaleOne(o)
    \/ \E o \in ops : Fin_WaitReady(o)
    \/ \E o \in ops : Fin_Refresh(o)
    \/ \E o \in ops : Fin_ScaleBack(o)
    \/ \E o \in ops : Daemon_FinalPatch(o)
    \/ \E o \in ops : Daemon_Delete(o)

\* the controllers of the cluster
Environment ==
    \/ \E c \in Clusters : PodExit(c)
    \/ \E c \in Clusters : PodStart(c)
    \/ \E c \in Clusters, i \in PvcIdx : PvcGone(c, i)
    \/ \E c \in Clusters : ZalandoSync(c)
    \/ \E c \in Clusters : HelperPodStart(c)
    \/ \E c \in Clusters : HelperPodExit(c)

\* the life of one Operation, op1, on the cluster pg1
Next ==
    \/ Admission({"op1"}, {"pg1"}, Kinds)
    \/ Lifecycle({"op1"})
    \/ Environment

Spec == Init /\ [][Next]_vars

\* the steps of the create handler of o, which the framework runs to its end
HandlerStep(o) ==
    \/ Run_Guard(o) \/ Run_RejectPatch(o) \/ Run_RejectDelete(o)
    \/ Run_Ensure(o) \/ Run_GetStrategy(o) \/ Run_Retry(o)
    \/ Ex_GetPvcName(o) \/ Ex_ReadSourcePvc(o) \/ Ex_RecordReplicas(o)
    \/ Ex_ScaleZero(o) \/ Ex_WaitPodsGone(o) \/ Ex_ListPvcs(o)
    \/ Ex_DeletePvc(o) \/ Ex_WaitPvcDeleted(o) \/ Ex_WaitPvcAbsent(o)
    \/ Ex_RestoreCreatePvc(o) \/ Ex_BackupResolve(o) \/ Ex_BackupCreate(o)
    \/ Ex_CreateHelper(o) \/ Ex_VerifySts(o) \/ Ex_VerifyPods(o)
    \/ Run_ExecFailedPatch(o) \/ Run_StartTask(o) \/ Run_TaskFailedPatch(o)
    \/ Run_InitialStatus(o) \/ Run_InitialPatch(o)

\* the steps of the daemon of o
DaemonStep(o) ==
    \/ Daemon_Start(o) \/ Daemon_Poll(o) \/ Daemon_Compare(o) \/ Daemon_Sleep(o)
    \/ Daemon_Finalize(o) \/ Fin_ScaleHelper(o) \/ Fin_WaitHelper(o)
    \/ Fin_ScaleOne(o) \/ Fin_WaitReady(o) \/ Fin_Refresh(o) \/ Fin_ScaleBack(o)
    \/ Daemon_FinalPatch(o) \/ Daemon_Delete(o)

\* the framework calls a create handler that raised again and again, without
\* a limit: the retries beyond the ones counted; the history goes on holding
\* the last MaxRetries + 1 runs, each of which passed the ensure_* calls once
Run_RetryAgain(o) ==
    /\ pc[o] = "raised"
    /\ loc[o].retries = MaxRetries
    /\ cr[o].present /\ ~cr[o].deletionTimestamp
    /\ pc' = [pc EXCEPT ![o] = "guard"]
    /\ hist' = [hist EXCEPT ![o].ensure = @ - 1]
    /\ UNCHANGED <<cr, loc, env, daemonVars, fnVars, now>>

NextLive ==
    \/ Next
    \/ Run_RetryAgain("op1")

\* the operator under fair scheduling: the handler and the daemon of op1 and the
\* controllers of the cluster go on whenever they can; users owe nothing
SpecLive ==
    /\ Init
    /\ [][NextLive]_vars
    /\ WF_vars(HandlerStep("op1") \/ Run_RetryAgain("op1"))
    /\ WF_vars(DaemonStep("op1"))
    /\ WF_vars(Environment)

\* the admission of two Operations created for the same cluster: the create
\* handlers up to the start of provisioning
NextAdmission == Admission(Ops, {"pg1"}, Kinds)

SpecAdmission == InitEmpty /\ [][NextAdmission]_vars

\* the operator process ends after the provisioning of o and before its task
\* was started; the framework of the new process calls create_fn for o again,
\* at once or a second later
Handler_Restart(o) ==
    /\ pc[o] = "start_task"
    /\ cr[o].present /\ ~cr[o].deletionTimestamp
    /\ hist[o].restarts < MaxRestarts
    /\ now' \in {now, now + 1}
    /\ pc' = [pc EXCEPT ![o] = "guard"]
    /\ loc' = [loc EXCEPT ![o] = InitLoc]
    /\ hist' = [hist EXCEPT ![o].restarts = @ + 1]
    /\ UNCHANGED <<cr, env, daemonVars, fnVars>>

BackupKinds == {k \in Kinds : k.operator = "zalando" /\ k.action = "backup"}

\* the provisioning of one backup, run again after a restart of the operator
NextProvision ==
    \/ \E k \in BackupKinds : CreateCR("op1", "pg1", k)
    \/ Run_Guard("op1")
    \/ Run_Ensure("op1")
    \/ Run_GetStrategy("op1")
    \/ Ex_GetPvcName("op1")
    \/ Ex_ReadSourcePvc("op1")
    \/ Ex_BackupResolve("op1")
    \/ Ex_BackupCreate("op1")
    \/ Ex_CreateHelper("op1")
    \/ Run_ExecFailedPatch("op1")
    \/ Handler_Restart("op1")
    \/ \E c \in Clusters : HelperPodStart(c)

SpecProvision == InitEmpty /\ [][NextProvision]_vars

(***************************************************************************)
(* Properties of the admission and of the life of an Operation             *)
(***************************************************************************)
PhaseIn(store, o) == get(store[o].status, "phase", "")
ReasonIn(store, o) == get(store[o].status, "reason", "")

\* a vendor status that means success: it begins with "completed", in any case
SuccessStatus(st) ==
    /\ Len(st.s) >= Len(sCompleted)
    /\ \A i \in 1..Len(sCompleted) : LowerChar(st.s[i]) = sCompleted[i]

\* s is a prefix of t
IsPrefix(s, t) == Len(s) <= Len(t) /\ \A i \in 1..Len(s) : s[i] = t[i]

\* C1: two Operations created for the same cluster, neither deleted by a user,
\* the list call never failing: once both create handlers have evaluated the
\* guard, exactly one of them has passed it (the other one is rejected); never
\* both, never none.
C1_ExactlyOnePasses ==
    ( /\ \A o \in Ops : hist[o].guard # "none"
      /\ \A o \in Ops : ~hist[o].listFailed /\ ~hist[o].userDeleted )
    => Cardinality({o \in Ops : hist[o].guard = "passed"}) = 1

\* C2: the vendor task is requested only after execute() has returned; when
\* execute() raises, no task is requested, no jobId is ever written and, once
\* run() has returned, the status says phase Failed, reason
\* StrategyExecutionError, with finishedAt.
C2_TaskOnlyAfterExecute ==
    \A o \in Ops :
        /\ hist[o].tasks > 0 => hist[o].execute = "returned"
        /\ hist[o].execute = "raised" =>
              /\ hist[o].tasks = 0
              /\ "jobId" \notin DOMAIN cr[o].status
        /\ (hist[o].execute = "raised" /\ pc[o] = "done" /\ cr[o].present) =>
              /\ PhaseIn(cr, o) = "Failed"
              /\ ReasonIn(cr, o) = "StrategyExecutionError"
              /\ "finishedAt" \in DOMAIN cr[o].status

\* execute() raised and run() has written the failure
C2_Witness ==
    \E o \in Ops :
        /\ hist[o].execute = "raised"
        /\ pc[o] = "done"
        /\ cr[o].present
        /\ ReasonIn(cr, o) = "StrategyExecutionError"
        /\ hist[o].tasks = 0

\* the steps of an in-place restore in the order the contract gives them
InPlaceOrder ==
    <<"record", "scale0", "pods_gone", "delete_pvcs", "pvc_absent", "create_pvc",
      "helper", "verify", "task">>

\* C3: the steps of a zalando in-place restore that have finished are, in this
\* order and without a gap: replica count recorded, cluster scaled to 0, pods
\* gone, numbered volumes deleted, target volume absent, target volume
\* recreated, helper workload created, cluster re-verified, restore task
\* requested.
C3_InPlaceStepOrder ==
    \A o \in Ops : IsPrefix(hist[o].steps, InPlaceOrder)

C5_TerminalPhaseStays ==
    [][\A o \in Ops :
          (cr[o].present /\ cr'[o].present /\ PhaseIn(cr, o) \in TerminalPhases)
              => PhaseIn(cr', o) = PhaseIn(cr, o)]_vars

\* C6: after a poll that returned a terminal status (Completed*, Failed, Killed)
\* there is no further poll; finalize runs once, with that status; the final
\* status {phase, commvaultStatus, finishedAt} is written once, after finalize;
\* the Operation is deleted only after that write, and is deleted when the
\* status is a success.
C6_TerminalThenFinalizeThenPatchThenDelete ==
    \A o \in Ops :
        LET h == hist[o]
        IN  /\ h.pollsAfter = 0
            /\ h.terminal # PyNone => dpc[o] \notin {"loop", "sleep"}
            /\ Len(h.finalized) <= 1
            /\ (h.terminal # PyNone /\ h.finalized # <<>>) => h.finalized[1] = h.terminal
            /\ h.finalPatch <= 1
            /\ h.finalPatch = 1 => Len(h.finalized) = 1
            /\ h.deleteCalls <= 1
            /\ h.deleteCalls = 1 => h.finalPatch = 1
            /\ (dpc[o] = "delete" /\ cr[o].present) =>
                  /\ PhaseIn(cr, o) = IF SuccessStatus(h.finalized[1])
                                      THEN "Succeeded" ELSE "Failed"
                  /\ get(cr[o].status, "commvaultStatus", <<>>) = h.finalized[1].s
                  /\ "finishedAt" \in DOMAIN cr[o].status
            /\ (dpc[o] = "exited" /\ h.terminal # PyNone) =>
                  /\ h.finalPatch = 1
                  /\ SuccessStatus(h.terminal) => h.deleteCalls = 1

\* a poll returned "Completed w/ errors"; the daemon finalized, wrote the final
\* status and deleted the Operation
C6_Witness ==
    \E o \in Ops :
        /\ dpc[o] = "exited"
        /\ hist[o].terminal = CommvaultJobStatus(PyStr(rCompletedErr))
        /\ hist[o].finalized = <<hist[o].terminal>>
        /\ hist[o].finalPatch = 1
        /\ hist[o].deleteCalls = 1
        /\ cr[o].present
        /\ cr[o].deletionTimestamp
        /\ PhaseIn(cr, o) = "Succeeded"

BlockedBy(o, p) ==
    /\ p # o
    /\ cr[p].present
    /\ ~cr[p].deletionTimestamp
    /\ cr[p].cluster = cr[o].cluster
    /\ PhaseIn(cr, p) \notin TerminalPhases

\* C9: a create handler that finds another Operation in progress for its
\* cluster (the list call not failing) takes the reject path; the reject path
\* writes phase Rejected and reason ConcurrentOperation to its own Operation,
\* deletes it and returns; its steps run no existence-ensuring helper, no
\* strategy selection, no provisioning and no vendor call, and leave every other
\* Operation and the cluster as they are.
C9_RejectPath ==
    [][\A o \in Ops :
          /\ (pc[o] = "guard" /\ pc'[o] # "guard" /\ ~hist'[o].listFailed
                  /\ \E p \in Ops : BlockedBy(o, p))
                => pc'[o] = "reject_patch" /\ cr' = cr
          /\ (pc[o] \in {"reject_patch", "reject_delete"} /\ pc'[o] # pc[o]) =>
                /\ pc'[o] = IF pc[o] = "reject_patch" THEN "reject_delete" ELSE "done"
                /\ \A p \in Ops \ {o} : cr'[p] = cr[p]
                /\ env' = env
                /\ hist'[o] = hist[o]
                /\ cr[o].present =>
                      /\ PhaseIn(cr', o) = "Rejected"
                      /\ ReasonIn(cr', o) = "ConcurrentOperation"
                      /\ pc[o] = "reject_delete" => cr'[o].deletionTimestamp]_vars

\* op2 was rejected and deleted while op1, which is in progress, is untouched
C9_Witness ==
    /\ pc["op2"] = "done"
    /\ hist["op2"].guard = "rejected"
    /\ hist["op2"].ensure = 0
    /\ ~hist["op2"].strategy
    /\ hist["op2"].vendor = 0
    /\ cr["op2"].present
    /\ cr["op2"].deletionTimestamp
    /\ PhaseIn(cr, "op2") = "Rejected"
    /\ ReasonIn(cr, "op2") = "ConcurrentOperation"
    /\ pc["op1"] = "get_pvc_name"
    /\ cr["op1"].present
    /\ ~cr["op1"].deletionTimestamp
    /\ cr["op1"].status = EmptyStatus

(***************************************************************************)
(* The pure functions on their own: the argument is drawn by the initial   *)
(* state, one action per function applies it.                              *)
(***************************************************************************)
StatusArgs ==
    {PyNone} \cup {PyStr(t) : t \in RawTexts}
             \cup {CommvaultJobStatus(PyStr(t)) : t \in RawTexts}

GuardNames == {"op1", "op2", "op3"}
GuardPhases == {"", "Running", "Succeeded", "Failed", "Rejected"}
GuardItems ==
    [name : GuardNames, deletionTimestamp : BOOLEAN, cluster : Clusters, phase : GuardPhases]

\* the lists of at most n items with different names
RECURSIVE ItemLists(_)
ItemLists(n) ==
    IF n = 0 THEN {<<>>}
    ELSE LET shorter == ItemLists(n - 1)
         IN  shorter \cup
             {Append(l, it) : l \in {x \in shorter : Len(x) = n - 1},
                              it \in GuardItems}

DistinctNames(l) == \A i, j \in 1..Len(l) : i # j => l[i].name # l[j].name

GuardArgs ==
    {[f |-> "guard", listing |-> [failed |-> fl, items |-> l], cluster_name |-> c,
      current_name |-> "op1"] :
        fl \in BOOLEAN, l \in {x \in ItemLists(MaxItems) : DistinctNames(x)}, c \in {"pg1"}}

InitFn ==
    /\ InitCommon
    /\ env = [c \in Clusters |-> InitCluster(1)]
    /\ fnIn \in {[f |-> "map_phase", status |-> a] : a \in StatusArgs} \cup GuardArgs
    /\ fnOut = NoFn
    /\ now = 0

Call_map_phase_from_status ==
    /\ fnIn.f = "map_phase"
    /\ fnOut = NoFn
    /\ fnOut' = [f |-> "map_phase", phase |-> map_phase_from_status(fnIn.status)]
    /\ UNCHANGED <<cr, pc, loc, env, hist, daemonVars, fnIn, now>>

Call_another_operation_in_progress ==
    /\ fnIn.f = "guard"
    /\ fnOut = NoFn
    /\ fnOut' = [f |-> "guard",
                 res |-> another_operation_in_progress(fnIn.listing, fnIn.cluster_name,
                                                       fnIn.current_name)]
    /\ UNCHANGED <<cr, pc, loc, env, hist, daemonVars, fnIn, now>>

NextFn ==
    \/ Call_map_phase_from_status
    \/ Call_another_operation_in_progress

SpecFn == InitFn /\ [][NextFn]_vars

(***************************************************************************)
(* C8: phase mapping                                                       *)
(***************************************************************************)
\* the text of a status argument, as the rules of the claim read it
TextOf(a) == IF a.kind = "none" THEN <<>> ELSE a.s

EqualsIgnoringCase(t, word) ==
    /\ Len(t) = Len(word)
    /\ \A i \in 1..Len(t) : LowerChar(t[i]) = word[i]

PrefixIgnoringCase(t, word) ==
    /\ Len(t) >= Len(word)
    /\ \A i \in 1..Len(word) : LowerChar(t[i]) = word[i]

\* the rules as the claim states them: every rule without regard to case
ClaimedPhase(a) ==
    LET t == TextOf(a)
    IN  IF t = <<>> \/ EqualsIgnoringCase(t, runknown) THEN "Pending"
        ELSE IF PrefixIgnoringCase(t, sCompleted) THEN "Succeeded"
        ELSE IF EqualsIgnoringCase(t, sFailed) \/ EqualsIgnoringCase(t, sKilled) THEN "Failed"
        ELSE IF EqualsIgnoringCase(t, sWaiting) \/ EqualsIgnoringCase(t, sPending) THEN "Pending"
        ELSE "Running"

\* surrounding white space removed
Trimmed(t) ==
    IF \A i \in 1..Len(t) : t[i] \in WhiteChars THEN <<>>
    ELSE LET first == CHOOSE i \in 1..Len(t) :
                          t[i] \notin WhiteChars /\ \A j \in 1..(i - 1) : t[j] \in WhiteChars
             last  == CHOOSE i \in 1..Len(t) :
                          t[i] \notin WhiteChars /\ \A j \in (i + 1)..Len(t) : t[j] \in WhiteChars
         IN  [k \in 1..(last - first + 1) |-> t[first + k - 1]]

\* the rules as amended: "Unknown" is matched as written, the other rules look at
\* the text without its surrounding white space and without regard to case
AmendedPhase(a) ==
    LET t == TextOf(a)
        u == Trimmed(t)
    IN  IF t = <<>> \/ t = sUnknown THEN "Pending"
        ELSE IF PrefixIgnoringCase(u, sCompleted) THEN "Succeeded"
        ELSE IF EqualsIgnoringCase(u, sFailed) \/ EqualsIgnoringCase(u, sKilled) THEN "Failed"
        ELSE IF EqualsIgnoringCase(u, sWaiting) \/ EqualsIgnoringCase(u, sPending) THEN "Pending"
        ELSE "Running"

\* C8 as stated: map_phase_from_status follows the rules unset or "Unknown" ->
\* Pending, prefix "completed" -> Succeeded, exactly "failed" or "killed" -> Failed,
\* "waiting" or "pending" -> Pending, anything else -> Running, each of them
\* without regard to case, for every input.
C8_AsStated ==
    fnOut.f = "map_phase" => fnOut.phase = ClaimedPhase(fnIn.status)

\* C8 as amended: map_phase_from_status is total and follows the rules for every
\* input, where unset or exactly "Unknown" (as written) -> Pending and the other
\* rules are applied to the text stripped of surrounding white space, without
\* regard to case.
C8_PhaseMapping ==
    fnOut.f = "map_phase" => fnOut.phase = AmendedPhase(fnIn.status)

\* the mapping was applied to "Killed" in capitals and gave Failed
C8_Witness ==
    /\ fnOut.f = "map_phase"
    /\ fnIn.status = PyStr(rKILLED)
    /\ fnOut.phase = "Failed"

(***************************************************************************)
(* C10: the guard as a function of the list                                *)
(***************************************************************************)
\* the item blocks an Operation named current on cluster
Blocking(it, cluster, current) ==
    /\ it.name # current
    /\ ~it.deletionTimestamp
    /\ it.cluster = cluster
    /\ it.phase \notin {"Succeeded", "Failed", "Rejected"}

\* C10: when the list call succeeds, another_operation_in_progress reports a
\* conflict if and only if the list holds an item with another name, without
\* deletionTimestamp, for the same cluster, whose phase is not Succeeded, Failed
\* or Rejected (no phase counts as in progress); it then returns the name of such
\* an item, otherwise (False, None).
C10_GuardFunction ==
    (fnOut.f = "guard" /\ ~fnIn.listing.failed) =>
        LET items == fnIn.listing.items
            blockers == {i \in 1..Len(items) :
                            Blocking(items[i], fnIn.cluster_name, fnIn.current_name)}
        IN  /\ fnOut.res.conflict <=> blockers # {}
            /\ fnOut.res.conflict => \E i \in blockers : fnOut.res.other = items[i].name
            /\ ~fnOut.res.conflict => fnOut.res.other = NoName

\* a conflict was reported although the first item of the list is terminating
C10_Witness ==
    /\ fnOut.f = "guard"
    /\ ~fnIn.listing.failed
    /\ Len(fnIn.listing.items) = 2
    /\ fnIn.listing.items[1].deletionTimestamp
    /\ fnIn.listing.items[1].cluster = fnIn.cluster_name
    /\ fnIn.listing.items[1].phase = "Running"
    /\ fnOut.res.conflict
    /\ fnOut.res.other = fnIn.listing.items[2].name

(***************************************************************************)
(* Claims about error handling at admission                                *)
(***************************************************************************)
\* C11: when the list call of the guard fails with an API error, the guard
\* answers (False, None): the create handler treats its Operation as free of
\* conflict and goes on to the provisioning; it neither rejects the Operation
\* nor writes anything to it, even when another Operation of the same cluster
\* is in progress.
C11_ListFailureMeansNoConflict ==
    [][\A o \in Ops :
        (pc[o] = "guard" /\ ~hist[o].listFailed /\ hist'[o].listFailed) =>
            /\ pc'[o] = "ensure"
            /\ ~loc'[o].conflict
            /\ loc'[o].other = NoName
            /\ hist'[o].guard = "passed"
            /\ cr' = cr]_vars

\* op2 is in progress on the cluster of op1, the only list call of op1 failed,
\* and op1 has reached the provisioning
C11_Witness ==
    /\ BlockedBy("op1", "op2")
    /\ PhaseIn(cr, "op2") = "Running"
    /\ hist["op1"].listFailed
    /\ loc["op1"].retries = 0
    /\ hist["op1"].guard = "passed"
    /\ pc["op1"] = "get_pvc_name"

\* C12: when the start of the vendor task raises, run() writes phase Failed,
\* reason CommvaultNoJob, a message and finishedAt, writes no jobId and
\* returns; the daemon, which runs only for an Operation with a jobId, never
\* starts for it: the vendor is not queried again, nothing is finalized, and
\* the operator never deletes the Operation.
C12_TaskStartFailure ==
    \A o \in Ops :
        hist[o].taskRaised =>
            /\ pc[o] \in {"task_failed", "done"}
            /\ "jobId" \notin DOMAIN cr[o].status
            /\ (pc[o] = "done" /\ cr[o].present) =>
                    /\ PhaseIn(cr, o) = "Failed"
                    /\ ReasonIn(cr, o) = "CommvaultNoJob"
                    /\ {"message", "finishedAt"} \subseteq DOMAIN cr[o].status
            /\ dpc[o] = "off"
            /\ hist[o].vendor = hist[o].tasks
            /\ hist[o].finalized = <<>>
            /\ hist[o].finalPatch = 0
            /\ hist[o].deleteCalls = 0
            /\ (cr[o].present /\ ~hist[o].userDeleted) => ~cr[o].deletionTimestamp

\* run() has returned after a failed task start; the Operation is there, Failed
C12_Witness ==
    /\ hist["op1"].taskRaised
    /\ pc["op1"] = "done"
    /\ cr["op1"].present
    /\ ~cr["op1"].deletionTimestamp
    /\ PhaseIn(cr, "op1") = "Failed"
    /\ ReasonIn(cr, "op1") = "CommvaultNoJob"

\* C13: once the guard has been passed, an error of the admission (in the
\* selection of the strategy, an operator without strategy included, in the
\* provisioning or in the start of the task) never leaves run(): whenever the
\* create handler is over for an Operation that passed the guard and still
\* exists, run() has returned and the Operation has a phase; after an error that
\* phase is Failed, with a reason. (Errors of the three ensure helpers, which
\* run before the selection of the strategy, are left aside.)
C13_AdmissionErrorsBecomeFailed ==
    \A o \in Ops :
        (/\ hist[o].guard = "passed" /\ cr[o].present
         /\ pc[o] \in {"done", "raised"}
         /\ loc[o].exception # "EnsureError") =>
            /\ pc[o] = "done"
            /\ PhaseIn(cr, o) # ""
            /\ (hist[o].execute = "raised" \/ hist[o].taskRaised) =>
                    PhaseIn(cr, o) = "Failed" /\ ReasonIn(cr, o) # ""

(***************************************************************************)
(* Claims about the persisted status                                       *)
(***************************************************************************)
\* C14: after a successful provisioning and a task start that returned the job
\* id J, run() persists in one status write the phase that the mapping rules
\* give for the initial vendor status, jobId = J, commvaultStatus = the text of
\* the initial status, and startedAt; an initial status Running gives phase
\* Running, and a failed status query gives commvaultStatus Unknown with phase
\* Pending.
C14_InitialPatch ==
    [][\A o \in Ops :
        (pc[o] = "initial_patch" /\ pc'[o] = "done" /\ cr[o].present) =>
            LET a == loc[o].answer
                text == IF a = PyNone THEN sUnknown ELSE a.s
                before == cr[o].status
                after == cr'[o].status
            IN  /\ loc[o].job_id = JobOf(o)
                /\ DOMAIN before \cap {"jobId", "commvaultStatus", "startedAt"} = {}
                /\ {"phase", "jobId", "commvaultStatus", "startedAt"} \subseteq DOMAIN after
                /\ after["jobId"] = loc[o].job_id
                /\ after["commvaultStatus"] = text
                /\ after["phase"] = AmendedPhase(PyStr(text))
                /\ text = rRunning => after["phase"] = "Running"
                /\ a = PyNone => after["commvaultStatus"] = sUnknown /\ after["phase"] = "Pending"]_vars

\* the scenario: a zalando backup of pg1 whose job J was Running at admission
C14_Witness ==
    /\ pc["op1"] = "done"
    /\ dpc["op1"] = "off"
    /\ cr["op1"].present
    /\ cr["op1"].cluster = "pg1"
    /\ cr["op1"].kind = [operator |-> "zalando", action |-> "backup", restore_mode |-> ""]
    /\ hist["op1"].execute = "returned"
    /\ "jobId" \in DOMAIN cr["op1"].status
    /\ cr["op1"].status["jobId"] = JobOf("op1")
    /\ cr["op1"].status["commvaultStatus"] = rRunning
    /\ PhaseIn(cr, "op1") = "Running"

\* C15: the persisted phase only advances: once phase Running is persisted for
\* an Operation, no status write sets its phase to Pending, whatever the
\* following polls answer.
C15_RunningNeverBackToPending ==
    [][\A o \in Ops :
        (cr[o].present /\ cr'[o].present /\ PhaseIn(cr, o) = "Running") =>
            PhaseIn(cr', o) # "Pending"]_vars

\* C16: in the polling loop a status write is issued exactly when the polled
\* status differs from the last observed one (at first the status persisted at
\* admission); it is issued in the same iteration, before the sleep and the
\* next poll, and carries the text of the status with the phase the mapping
\* rules give for it; all other fields stay. So the polls Running, Running,
\* Completed w/ errors after another admission status give two such writes.
C16_WriteOnChange ==
    [][\A o \in Ops :
        (dpc[o] = "compare" /\ dpc'[o] # "compare") =>
            LET st == dloc[o].status
                last == dloc[o].last_status
                differs == last.kind = "none" \/ st.s # last.s
                before == cr[o].status
                after == cr'[o].status
            IN  /\ dpc'[o] \in {"sleep", "finalize"}
                /\ hist'[o].loopWrites = hist[o].loopWrites + (IF differs THEN 1 ELSE 0)
                /\ dloc'[o].last_status.s = st.s
                /\ \A p \in Ops \ {o} : cr'[p] = cr[p]
                /\ (differs /\ cr[o].present) =>
                        /\ DOMAIN after = DOMAIN before \cup {"commvaultStatus", "phase"}
                        /\ after["commvaultStatus"] = st.s
                        /\ after["phase"] = AmendedPhase(PyStr(st.s))
                        /\ \A k \in DOMAIN before \ {"commvaultStatus", "phase"} :
                                after[k] = before[k]
                /\ (~differs \/ ~cr[o].present) => cr'[o] = cr[o]]_vars

\* three polls, the last one Completed w/ errors, two writes in the loop, the
\* final phase Succeeded and the Operation deleted by the daemon
C16_Witness ==
    /\ dpc["op1"] = "exited"
    /\ hist["op1"].vendor = hist["op1"].tasks + 1 + 3
    /\ hist["op1"].loopWrites = 2
    /\ hist["op1"].finalized = <<CommvaultJobStatus(PyStr(rCompletedErr))>>
    /\ hist["op1"].deleteCalls = 1
    /\ cr["op1"].present
    /\ cr["op1"].deletionTimestamp
    /\ PhaseIn(cr, "op1") = "Succeeded"

(***************************************************************************)
(* Claims about the polling task                                           *)
(***************************************************************************)
\* C17: when the stop signal is set as the polling loop checks it, or the
\* Operation has a deletionTimestamp as the daemon starts, the daemon returns
\* at once: no vendor query, no finalize, no status write, no deletion; every
\* Operation, its persisted status included, and the cluster stay as they were.
C17_StopExitsWithoutEffect ==
    [][\A o \in Ops :
        (\/ dpc[o] = "loop" /\ dpc'[o] # "loop" /\ dloc[o].polls < MaxPolls /\ stopped[o]
         \/ dpc[o] = "off" /\ dpc'[o] # "off" /\ cr[o].deletionTimestamp) =>
            /\ dpc'[o] = "exited"
            /\ cr' = cr
            /\ env' = env
            /\ hist' = hist]_vars

\* the daemon has polled, found the stop signal at the next check and returned;
\* the status of the last write is still there
C17_Witness ==
    /\ dpc["op1"] = "exited"
    /\ stopped["op1"]
    /\ hist["op1"].vendor >= hist["op1"].tasks + 2
    /\ hist["op1"].loopWrites = 1
    /\ hist["op1"].finalized = <<>>
    /\ hist["op1"].finalPatch = 0
    /\ hist["op1"].deleteCalls = 0
    /\ cr["op1"].present
    /\ "jobId" \in DOMAIN cr["op1"].status
    /\ "finishedAt" \notin DOMAIN cr["op1"].status

\* C18: the stop signal is checked before the status query and before the
\* sleep of every iteration: once it has been raised, the running daemon
\* writes no status, finalizes nothing, deletes nothing and does not go to
\* sleep.
C18_NothingAfterStop ==
    [][\A o \in Ops :
        (/\ stopped[o] /\ pc[o] = "done" /\ dpc[o] \notin {"off", "exited"}
         /\ cr[o].present /\ cr'[o].present) =>
            /\ cr'[o] = cr[o]
            /\ hist'[o].finalized = hist[o].finalized
            /\ hist'[o].finalPatch = hist[o].finalPatch
            /\ hist'[o].deleteCalls = hist[o].deleteCalls
            /\ dpc[o] # "sleep" => dpc'[o] # "sleep"]_vars

C20_IterationErrorGoesOn ==
    [][\A o \in Ops :
        (dpc[o] = "compare" /\ dpc'[o] # "compare" /\ dloc[o].answer = PyNone) =>
            /\ dpc'[o] = "sleep"
            /\ hist'[o].finalized = hist[o].finalized
            /\ hist'[o].finalPatch = hist[o].finalPatch
            /\ hist'[o].deleteCalls = hist[o].deleteCalls
            /\ cr'[o].present => PhaseIn(cr', o) # "Failed"]_vars

\* the query of an earlier iteration raised (the last observed status is that
\* of a failed query), the daemon has polled again and the job is Running
C20_Witness ==
    /\ dpc["op1"] = "compare"
    /\ dloc["op1"].polls >= 2
    /\ dloc["op1"].last_status = CommvaultJobStatus(PyNone)
    /\ dloc["op1"].answer = PyStr(rRunning)
    /\ hist["op1"].loopWrites >= 1
    /\ hist["op1"].finalized = <<>>
    /\ cr["op1"].present
    /\ PhaseIn(cr, "op1") = "Pending"

(***************************************************************************)
(* Claims about provisioning                                               *)
(***************************************************************************)
\* C21: the target volume of a restore is created only after its name was seen
\* absent, and an "already exists" answer to the create is a retryable
\* failure: it never ends as a permanent failure of the Operation (phase
\* Failed) and never as a success (no vendor task is started).
C21_CreateRaceIsRetryable ==
    \A o \in Ops :
        /\ (InPlace(o) /\ Len(hist[o].steps) > 0
                /\ hist[o].steps[Len(hist[o].steps)] = "create_pvc") =>
               \E i \in 1..(Len(hist[o].steps) - 1) : hist[o].steps[i] = "pvc_absent"
        /\ hist[o].alreadyExists =>
               /\ hist[o].tasks = 0
               /\ cr[o].present => PhaseIn(cr, o) # "Failed"

\* C22: when the provisioning of a backup is run again after its snapshot, its
\* clone volume and its helper workload were created, it succeeds and creates
\* nothing more: there is never more than one snapshot, one clone volume and
\* one helper workload for the Operation, and the run does not fail because
\* they exist.
C22_RerunCreatesNothing ==
    \A c \in Clusters :
        /\ Cardinality(env[c].snaps) <= 1
        /\ Cardinality({v \in env[c].vols : v.type = "clone"}) <= 1

(***************************************************************************)
(* Admission and provisioning of one Operation of any kind, zalando or     *)
(* CNPG, up to the return of execute()                                     *)
(***************************************************************************)
AllKinds == Kinds \cup CnpgKinds

NextExecute ==
    \/ Admission({"op1"}, {"pg1"}, AllKinds)
    \/ Ex_GetPvcName("op1")
    \/ Ex_ReadSourcePvc("op1")
    \/ Ex_RecordReplicas("op1")
    \/ Ex_ScaleZero("op1")
    \/ Ex_WaitPodsGone("op1")
    \/ Ex_ListPvcs("op1")
    \/ Ex_DeletePvc("op1")
    \/ Ex_WaitPvcDeleted("op1")
    \/ Cnpg_ReadPod("op1")
    \/ Cnpg_ReadSourcePvc("op1")
    \/ Ex_WaitPvcAbsent("op1")
    \/ Ex_RestoreCreatePvc("op1")
    \/ Ex_BackupResolve("op1")
    \/ Ex_BackupCreate("op1")
    \/ Ex_CreateHelper("op1")
    \/ Ex_VerifySts("op1")
    \/ Ex_VerifyPods("op1")
    \/ Run_ExecFailedPatch("op1")
    \/ PodExit("pg1")
    \/ PodStart("pg1")
    \/ \E i \in PvcIdx : PvcGone("pg1", i)
    \/ ZalandoSync("pg1")
    \/ HelperPodStart("pg1")

SpecExecute == Init /\ [][NextExecute]_vars

(***************************************************************************)
(* The daemon of an in-place restore on its own: provisioning has quiesced *)
(* the cluster and started the helper workload, the job is running, and    *)
(* the status holds some recorded replica count                            *)
(***************************************************************************)
InPlaceKind == [operator |-> "zalando", action |-> "restore", restore_mode |-> "in-place"]

\* the values that may be found under originalReplicas
RecordedValues ==
    {PyInt(n) : n \in -1..MaxRecorded}
        \cup {PyNone, PyStr(<<>>), PyStr(<<"3">>), PyStr(<<"x">>)}

RestoredStatus ==
    [phase |-> "Running", commvaultStatus |-> rRunning, action |-> "restore",
     operator |-> "zalando", restore_mode |-> "in-place", startedAt |-> Timestamp,
     jobId |-> JobOf("op1")]

RestoredCluster ==
    [InitCluster(1) EXCEPT
        !.zinst = 0, !.replicas = 0, !.pods = 0,
        !.helper = [present |-> TRUE, replicas |-> 1, owner |-> "op1",
                    volume |-> [type |-> "numbered", op |-> NoName, idx |-> 0, id |-> 0]],
        !.hpod = FALSE]

InitFinalize ==
    /\ \/ cr = [o \in Ops |-> IF o = "op1"
                              THEN [present |-> TRUE, deletionTimestamp |-> FALSE,
                                    cluster |-> "pg1", kind |-> InPlaceKind,
                                    status |-> RestoredStatus]
                              ELSE NoCR]
       \/ \E raw \in RecordedValues :
            cr = [o \in Ops |-> IF o = "op1"
                              THEN [present |-> TRUE, deletionTimestamp |-> FALSE,
                                    cluster |-> "pg1", kind |-> InPlaceKind,
                                    status |-> merged(RestoredStatus,
                                                      [originalReplicas |-> raw])]
                              ELSE NoCR]
    /\ pc = [o \in Ops |-> IF o = "op1" THEN "done" ELSE "none"]
    /\ hist = [o \in Ops |-> IF o = "op1" THEN RunningHist ELSE InitHist]
    /\ loc = [o \in Ops |-> InitLoc]
    /\ dpc = [o \in Ops |-> "off"]
    /\ dloc = [o \in Ops |-> InitDloc]
    /\ stopped = [o \in Ops |-> FALSE]
    /\ env = [c \in Clusters |-> IF c = "pg1" THEN RestoredCluster ELSE InitCluster(1)]
    /\ fnIn = NoFn
    /\ fnOut = NoFn
    /\ now = 0

NextFinalize ==
    \/ Daemon_Start("op1")
    \/ Daemon_Poll("op1")
    \/ Daemon_Compare("op1")
    \/ Daemon_Sleep("op1")
    \/ Daemon_Finalize("op1")
    \/ Fin_ScaleHelper("op1")
    \/ Fin_WaitHelper("op1")
    \/ Fin_ScaleOne("op1")
    \/ Fin_WaitReady("op1")
    \/ Fin_Refresh("op1")
    \/ Fin_ScaleBack("op1")
    \/ Daemon_FinalPatch("op1")
    \/ Daemon_Delete("op1")
    \/ PodStart("pg1")
    \/ ZalandoSync("pg1")
    \/ HelperPodStart("pg1")
    \/ HelperPodExit("pg1")

SpecFinalize == InitFinalize /\ [][NextFinalize]_vars

(***************************************************************************)
(* An Operation on a cluster on which an earlier backup, op2, failed at    *)
(* the start of its task and was retained with its clone volume, its       *)
(* snapshot and its helper workload                                        *)
(***************************************************************************)
RetainedCR ==
    [RunningCR EXCEPT !.status = [phase |-> "Failed", reason |-> "CommvaultNoJob",
                                  message |-> "task", finishedAt |-> Timestamp]]

RetainedHist ==
    [InitHist EXCEPT !.guard = "passed", !.ensure = 1, !.strategy = TRUE,
                     !.execute = "returned", !.tasks = 1, !.vendor = 1,
                     !.taskRaised = TRUE]

\* the clone volume of op2, named after the time of its run, before now
RetainedVolume == [type |-> "clone", op |-> "op2", idx |-> 0, id |-> -1]

RetainedCluster ==
    [InitCluster(1) EXCEPT
        !.vols = {RetainedVolume},
        !.snaps = {[op |-> "op2", id |-> -1]},
        !.helper = [present |-> TRUE, replicas |-> 1, owner |-> "op2",
                    volume |-> RetainedVolume]]

InitRetained ==
    /\ cr = [o \in Ops |-> IF o = "op2" THEN RetainedCR ELSE NoCR]
    /\ pc = [o \in Ops |-> IF o = "op2" THEN "done" ELSE "none"]
    /\ hist = [o \in Ops |-> IF o = "op2" THEN RetainedHist ELSE InitHist]
    /\ loc = [o \in Ops |-> InitLoc]
    /\ dpc = [o \in Ops |-> "off"]
    /\ dloc = [o \in Ops |-> InitDloc]
    /\ stopped = [o \in Ops |-> FALSE]
    /\ env = [c \in Clusters |-> IF c = "pg1" THEN RetainedCluster ELSE InitCluster(1)]
    /\ fnIn = NoFn
    /\ fnOut = NoFn
    /\ now = 0

\* op1 of any kind on pg1; the guard finds no Operation in progress
NextRetained ==
    \/ \E k \in AllKinds : CreateCR("op1", "pg1", k)
    \/ UserDelete("op1")
    \/ RemoveCR("op1")
    \/ Run_Guard("op1")
    \/ Run_Ensure("op1")
    \/ Run_GetStrategy("op1")
    \/ Run_Retry("op1")
    \/ Ex_GetPvcName("op1")
    \/ Ex_ReadSourcePvc("op1")
    \/ Ex_RecordReplicas("op1")
    \/ Ex_ScaleZero("op1")
    \/ Ex_WaitPodsGone("op1")
    \/ Ex_ListPvcs("op1")
    \/ Ex_DeletePvc("op1")
    \/ Ex_WaitPvcDeleted("op1")
    \/ Cnpg_ReadPod("op1")
    \/ Cnpg_ReadSourcePvc("op1")
    \/ Ex_WaitPvcAbsent("op1")
    \/ Ex_RestoreCreatePvc("op1")
    \/ Ex_BackupResolve("op1")
    \/ Ex_BackupCreate("op1")
    \/ Ex_CreateHelper("op1")
    \/ Ex_VerifySts("op1")
    \/ Ex_VerifyPods("op1")
    \/ Run_ExecFailedPatch("op1")
    \/ PodExit("pg1")
    \/ PodStart("pg1")
    \/ \E i \in PvcIdx : PvcGone("pg1", i)
    \/ ZalandoSync("pg1")
    \/ HelperPodStart("pg1")

SpecRetained == InitRetained /\ [][NextRetained]_vars

(***************************************************************************)
(* The operator process is restarted while the daemon of the in-place      *)
(* restore op1 runs: the framework starts wait_and_cleanup again for every *)
(* Operation that has a jobId                                              *)
(***************************************************************************)
\* the process ends after the final status of o was written and before o is
\* deleted, or after the daemon of a failed o has exited; the daemon of the
\* new process starts from the stored status
Daemon_Restart(o) ==
    /\ dpc[o] \in {"delete", "exited"}
    /\ cr[o].present /\ ~cr[o].deletionTimestamp
    /\ PhaseIn(cr, o) \in {"Succeeded", "Failed"}
    /\ "jobId" \in DOMAIN cr[o].status
    /\ hist[o].restarts < MaxRestarts
    /\ dpc' = [dpc EXCEPT ![o] = "off"]
    /\ dloc' = [dloc EXCEPT ![o] = InitDloc]
    /\ hist' = [hist EXCEPT ![o].restarts = @ + 1]
    /\ UNCHANGED <<cr, pc, loc, env, stopped, fnVars, now>>

NextRestart ==
    \/ NextFinalize
    \/ Daemon_Restart("op1")

\* the restore recorded the replica count of a running cluster
InitRestart ==
    /\ InitFinalize
    /\ get(cr["op1"].status, "originalReplicas", PyNone) \in {PyInt(n) : n \in 1..MaxRecorded}

SpecRestart == InitRestart /\ [][NextRestart]_vars

(***************************************************************************)
(* A second Operation for the cluster arrives while the daemon of the      *)
(* in-place restore op1 polls, finalizes and writes its final status       *)
(***************************************************************************)
NextConcurrent ==
    \/ NextFinalize
    \/ CreateCR("op2", "pg1", InPlaceKind)
    \/ Run_Guard("op2")
    \/ Run_RejectPatch("op2")
    \/ Run_RejectDelete("op2")

SpecConcurrent == InitFinalize /\ [][NextConcurrent]_vars

(***************************************************************************)
(* K8sBackupApi.patch_status on its own: a status, two calls with their    *)
(* fields, and the answers of the API server                               *)
(***************************************************************************)
\* a variant that sends the named fields as the whole status
patch_status_overwrites(status, fields, getOk, patchOk) ==
    IF patchOk THEN fields ELSE status

\* one call on an existing Operation with the status given: the GET (on an
\* error the current status counts as empty), dict.update with the fields, the
\* PATCH of the result as a merge-patch (on an error nothing is written)
patch_status_call(status, fields, getOk, patchOk) ==
    LET current == IF getOk THEN status ELSE EmptyStatus
        body == merged(current, fields)
    IN  IF patchOk THEN merged(status, body) ELSE status

PatchKeys == {"phase", "reason", "jobId"}

\* the dicts over some of the keys that hold the value v
DictsOf(v) == UNION {[K -> {v}] : K \in SUBSET PatchKeys}

PatchArgs ==
    {[f |-> "patch", status |-> st, first |-> a, second |-> b] :
        st \in DictsOf("old"), a \in DictsOf("one") \ {EmptyStatus},
        b \in DictsOf("two") \ {EmptyStatus}}

InitPatch ==
    /\ InitCommon
    /\ env = [c \in Clusters |-> InitCluster(1)]
    /\ fnIn \in PatchArgs
    /\ fnOut = NoFn
    /\ now = 0

\* the first call, then the second one on the status the first one left
Call_patch_status ==
    /\ fnIn.f = "patch"
    /\ \E getOk \in BOOLEAN, patchOk \in BOOLEAN :
         IF fnOut = NoFn
         THEN fnOut' = [f |-> "patch", calls |-> 1, before |-> fnIn.status,
                        status |-> patch_status_call(fnIn.status, fnIn.first, getOk, patchOk),
                        written |-> patchOk]
         ELSE /\ fnOut.calls = 1
              /\ fnOut' = [f |-> "patch", calls |-> 2, before |-> fnOut.status,
                           status |-> patch_status_call(fnOut.status, fnIn.second,
                                                        getOk, patchOk),
                           written |-> fnOut.written /\ patchOk]
    /\ UNCHANGED <<cr, pc, loc, env, hist, daemonVars, fnIn, now>>

NextPatch == Call_patch_status

SpecPatch == InitPatch /\ [][NextPatch]_vars

(***************************************************************************)
(* K8sBackupApi.patch_status and delete_cr with the answers of the API     *)
(* server: "ok", "404" (an ApiException with status 404), "ApiException"   *)
(* (any other status), "Exception" (anything that is not an ApiException)  *)
(***************************************************************************)
ApiAnswers == {"ok", "404", "ApiException", "Exception"}

\* what an "except ApiException" clause catches
is_ApiException(a) == a \in {"404", "ApiException"}

\* a variant whose PATCH lets an error other than not-found through
patch_status_answers_strict(status, fields, getAns, patchAns) ==
    IF getAns = "404"
    THEN [raised |-> FALSE, status |-> status, sent |-> FALSE, log |-> <<>>]
    ELSE IF getAns = "Exception"
    THEN [raised |-> FALSE, status |-> status, sent |-> FALSE, log |-> <<"Unexpected error">>]
    ELSE LET current == IF getAns = "ok" THEN status ELSE EmptyStatus
             body == merged(current, fields)
             log1 == IF getAns = "ok" THEN <<>> ELSE <<"Status GET failed">>
         IN  IF patchAns = "ok"
             THEN [raised |-> FALSE, status |-> merged(status, body), sent |-> TRUE, log |-> log1]
             ELSE IF patchAns = "404"
             THEN [raised |-> FALSE, status |-> status, sent |-> FALSE, log |-> log1]
             ELSE [raised |-> TRUE, status |-> status, sent |-> FALSE, log |-> log1]

\* patch_status: the GET in its own try (404 returns, another ApiException
\* leaves current empty), the PATCH in its own try (404 returns, another
\* ApiException is logged), and "except Exception" around both
patch_status_answers(status, fields, getAns, patchAns) ==
    IF getAns = "404"
    THEN [raised |-> FALSE, status |-> status, sent |-> FALSE, log |-> <<>>]
    ELSE IF ~is_ApiException(getAns) /\ getAns # "ok"
    THEN [raised |-> FALSE, status |-> status, sent |-> FALSE, log |-> <<"Unexpected error">>]
    ELSE LET current == IF getAns = "ok" THEN status ELSE EmptyStatus
             body == merged(current, fields)
             log1 == IF getAns = "ok" THEN <<>> ELSE <<"Status GET failed">>
         IN  IF patchAns = "ok"
             THEN [raised |-> FALSE, status |-> merged(status, body), sent |-> TRUE, log |-> log1]
             ELSE IF patchAns = "404"
             THEN [raised |-> FALSE, status |-> status, sent |-> FALSE, log |-> log1]
             ELSE IF is_ApiException(patchAns)
             THEN [raised |-> FALSE, status |-> status, sent |-> FALSE,
                   log |-> Append(log1, "Status PATCH failed")]
             ELSE [raised |-> FALSE, status |-> status, sent |-> FALSE,
                   log |-> Append(log1, "Unexpected error")]

\* delete_cr: the Operation is gone when the DELETE is answered "ok"
delete_cr_answers(present, answer) ==
    IF answer = "ok"
    THEN [raised |-> FALSE, present |-> FALSE, log |-> <<"deleted">>]
    ELSE IF is_ApiException(answer)
    THEN [raised |-> FALSE, present |-> present,
          log |-> IF answer = "404" THEN <<"already deleted">> ELSE <<"Failed to delete">>]
    ELSE [raised |-> FALSE, present |-> present, log |-> <<"Unexpected error">>]

\* what the API server can answer about an Operation that is there or not
AnswersFor(present) == IF present THEN ApiAnswers ELSE ApiAnswers \ {"ok"}

ApiArgs ==
    {[f |-> "api", present |-> p, status |-> st, fields |-> a] :
        p \in BOOLEAN, st \in DictsOf("old"), a \in DictsOf("one") \ {EmptyStatus}}

InitApi ==
    /\ InitCommon
    /\ env = [c \in Clusters |-> InitCluster(1)]
    /\ fnIn \in ApiArgs
    /\ fnOut = NoFn
    /\ now = 0

\* one call of patch_status; the Operation may be deleted between GET and PATCH
Call_patch_status_api ==
    /\ fnIn.f = "api"
    /\ fnOut = NoFn
    /\ \E getAns \in AnswersFor(fnIn.present), patchAns \in AnswersFor(fnIn.present) :
         fnOut' = [f |-> "patch_status", get |-> getAns, patch |-> patchAns,
                   res |-> patch_status_answers(fnIn.status, fnIn.fields, getAns, patchAns)]
    /\ UNCHANGED <<cr, pc, loc, env, hist, daemonVars, fnIn, now>>

\* one call of delete_cr
Call_delete_cr ==
    /\ fnIn.f = "api"
    /\ fnOut = NoFn
    /\ \E answer \in AnswersFor(fnIn.present) :
         fnOut' = [f |-> "delete_cr", answer |-> answer,
                   res |-> delete_cr_answers(fnIn.present, answer)]
    /\ UNCHANGED <<cr, pc, loc, env, hist, daemonVars, fnIn, now>>

NextApi == Call_patch_status_api \/ Call_delete_cr

SpecApi == InitApi /\ [][NextApi]_vars

(***************************************************************************)
(* Operation.__init__ and the create handler that constructs it: the spec  *)
(* of the resource is drawn by the initial state                           *)
(***************************************************************************)
sBackup == <<"b","a","c","k","u","p">>
sRestore == <<"r","e","s","t","o","r","e">>
sZalando == <<"z","a","l","a","n","d","o">>
sCnpg == <<"c","n","p","g">>
sInPlace == <<"i","n","-","p","l","a","c","e">>
sOutOfPlace == <<"o","u","t","-","o","f","-","p","l","a","c","e">>
rBackupCap == <<"B","a","c","k","u","p">>
rRESTORE == <<"R","E","S","T","O","R","E">>
rDelete == <<"d","e","l","e","t","e">>
rBackups == <<"b","a","c","k","u","p","s">>
rCNPG == <<"C","N","P","G">>
rInPlaceCap == <<"I","n","-","P","l","a","c","e">>
rInplace == <<"i","n","p","l","a","c","e">>
rDate == <<"2","0","2","4">>

\* a key the dict does not hold
Unset == [kind |-> "unset", s |-> <<>>]

\* dict.get(key, default) on the spec of the resource
spec_get(spec, key, default) == IF spec[key] = Unset THEN default ELSE spec[key]

\* v or d
py_or(v, d) == IF truthy(v) THEN v ELSE d

\* a variant that accepts every action
Operation_unchecked(spec) ==
    LET action == lower(py_or(spec_get(spec, "action", PyNone), PyStr(sBackup)).s)
    IN  [raised       |-> FALSE,
         action       |-> action,
         operator     |-> lower(py_or(spec_get(spec, "operator", PyNone), PyStr(sZalando)).s),
         restore_date |-> IF action = sRestore
                          THEN spec_get(spec, "restore_date", PyStr(<<>>))
                          ELSE PyStr(<<>>),
         restore_mode |-> IF action = sRestore
                          THEN lower(py_or(spec_get(spec, "restore_mode", PyStr(sOutOfPlace)),
                                           PyStr(sOutOfPlace)).s)
                          ELSE <<>>]

\* Operation.__init__: the fields it leaves, or raised for its ValueError
Operation(spec) ==
    LET action == lower(py_or(spec_get(spec, "action", PyNone), PyStr(sBackup)).s)
    IN  IF action \notin {sBackup, sRestore}
        THEN [raised |-> TRUE, action |-> <<>>, operator |-> <<>>,
              restore_date |-> PyStr(<<>>), restore_mode |-> <<>>]
        ELSE [raised       |-> FALSE,
              action       |-> action,
              operator     |-> lower(py_or(spec_get(spec, "operator", PyNone),
                                           PyStr(sZalando)).s),
              restore_date |-> IF action = sRestore
                               THEN spec_get(spec, "restore_date", PyStr(<<>>))
                               ELSE PyStr(<<>>),
              restore_mode |-> IF action = sRestore
                               THEN lower(py_or(spec_get(spec, "restore_mode",
                                                         PyStr(sOutOfPlace)),
                                                PyStr(sOutOfPlace)).s)
                               ELSE <<>>]

\* the texts of the fields as the names the rest of the model uses
NameOf(t) ==
    CASE t = <<>>        -> ""
      [] t = sBackup     -> "backup"
      [] t = sRestore    -> "restore"
      [] t = sZalando    -> "zalando"
      [] t = sCnpg       -> "cnpg"
      [] t = sInPlace    -> "in-place"
      [] t = sOutOfPlace -> "out-of-place"
      [] OTHER           -> "other"

KindOfOperation(op) ==
    [operator |-> NameOf(op.operator), action |-> NameOf(op.action),
     restore_mode |-> NameOf(op.restore_mode)]

OperationArgs ==
    {[f |-> "operation",
      spec |-> [action |-> a, operator |-> op, restore_date |-> d, restore_mode |-> m]] :
        a \in {Unset, PyNone, PyStr(<<>>), PyStr(sBackup), PyStr(rBackupCap), PyStr(sRestore),
               PyStr(rRESTORE), PyStr(rDelete), PyStr(rBackups)},
        op \in {Unset, PyStr(sZalando), PyStr(rCNPG)},
        d \in {Unset, PyStr(<<>>), PyStr(rDate)},
        m \in {Unset, PyNone, PyStr(<<>>), PyStr(sInPlace), PyStr(rInPlaceCap),
               PyStr(sOutOfPlace), PyStr(rInplace)}}

InitOperation ==
    /\ InitCommon
    /\ env = [c \in Clusters |-> InitCluster(1)]
    /\ fnIn \in OperationArgs
    /\ fnOut = NoFn
    /\ now = 0

\* create_fn: the Operation is constructed first; its ValueError leaves the
\* handler before BackupOperator.run
Create_fn(o) ==
    /\ fnIn.f = "operation"
    /\ fnOut = NoFn
    /\ pc[o] = "none"
    /\ LET op == Operation(fnIn.spec)
       IN  /\ fnOut' = [f |-> "operation", op |-> op]
           /\ cr' = [cr EXCEPT ![o] = [present |-> TRUE, deletionTimestamp |-> FALSE,
                                       cluster |-> "pg1",
                                       kind |-> IF op.raised THEN NoKind
                                                ELSE KindOfOperation(op),
                                       status |-> EmptyStatus]]
           /\ pc' = [pc EXCEPT ![o] = IF op.raised THEN "raised" ELSE "guard"]
    /\ UNCHANGED <<loc, env, hist, daemonVars, fnIn, now>>

NextOperation ==
    \/ Create_fn("op1")
    \/ Run_Guard("op1")
    \/ Run_Ensure("op1")
    \/ Run_GetStrategy("op1")

SpecOperation == InitOperation /\ [][NextOperation]_vars

(***************************************************************************)
(* StatefulSetApi.delete_all_sts_pvcs on its own: the names of the         *)
(* templates of the StatefulSet and of the volumes of the namespace        *)
(***************************************************************************)
\* "-".join(parts)
RECURSIVE Joined(_)
Joined(parts) ==
    IF Len(parts) = 1 THEN parts[1]
    ELSE parts[1] \o <<"-">> \o Joined(Tail(parts))

\* str.isdigit()
isdigit(t) == t # <<>> /\ \A i \in 1..Len(t) : IsDigit(t[i])

\* what the loop does with one volume name: the first template whose prefix
\* <tmpl>-<sts_name>- the name starts with decides, the others are not looked at
deletes_pvc(pvc_name, template_names, sts_name) ==
    LET prefix(i) == template_names[i] \o <<"-">> \o sts_name \o <<"-">>
        hits == {i \in 1..Len(template_names) : startswith(pvc_name, prefix(i))}
    IN  /\ hits # {}
        /\ LET first == CHOOSE i \in hits : \A j \in hits : i <= j
               suffix == SubSeq(pvc_name, Len(prefix(first)) + 1, Len(pvc_name))
           IN  isdigit(suffix)

\* delete_all_sts_pvcs: the volumes it deletes, or raised when the StatefulSet
\* cannot be read or the volumes cannot be listed
delete_all_sts_pvcs(template_names, sts_name, pvc_names, stsOk, listOk) ==
    IF ~stsOk \/ (template_names # <<>> /\ ~listOk)
    THEN [raised |-> TRUE, deleted |-> {}]
    ELSE [raised |-> FALSE,
          deleted |-> {n \in pvc_names : deletes_pvc(n, template_names, sts_name)}]

StsName == <<"s">>
WorkloadNames == {StsName, <<"s", "-", "n">>, <<"t">>}
TemplateNames == {<<"d">>, <<"w">>, <<"d", "-", "s", "-", "w">>}
NameSuffixes == {<<"0">>, <<"1", "2">>, <<"0", "-", "r", "-", "7">>, <<"x">>}

\* the template lists of a StatefulSet: one or two templates
TemplateLists ==
    {<<a>> : a \in TemplateNames}
        \cup {<<p[1], p[2]>> : p \in {q \in TemplateNames \X TemplateNames : q[1] # q[2]}}

\* the names volumes have: <template>-<workload>-<ordinal or other suffix>
VolumeNames ==
    {Joined(<<t, w, x>>) : t \in TemplateNames, w \in WorkloadNames, x \in NameSuffixes}

\* the sets of at most k volume names
RECURSIVE VolumeSets(_)
VolumeSets(k) ==
    IF k = 0 THEN {{}}
    ELSE LET smaller == VolumeSets(k - 1)
         IN  smaller \cup {x \cup {n} : x \in smaller, n \in VolumeNames}

DeleteArgs ==
    {[f |-> "delete_pvcs", template_names |-> l, pvc_names |-> ns] :
        l \in TemplateLists, ns \in VolumeSets(MaxPvcs)}

InitDelete ==
    /\ InitCommon
    /\ env = [c \in Clusters |-> InitCluster(1)]
    /\ fnIn \in DeleteArgs
    /\ fnOut = NoFn
    /\ now = 0

Call_delete_all_sts_pvcs ==
    /\ fnIn.f = "delete_pvcs"
    /\ fnOut = NoFn
    /\ \E stsOk \in BOOLEAN, listOk \in BOOLEAN :
         fnOut' = [f |-> "delete_pvcs",
                   res |-> delete_all_sts_pvcs(fnIn.template_names, StsName,
                                               fnIn.pvc_names, stsOk, listOk)]
    /\ UNCHANGED <<cr, pc, loc, env, hist, daemonVars, fnIn, now>>

NextDelete == Call_delete_all_sts_pvcs

SpecDelete == InitDelete /\ [][NextDelete]_vars

(***************************************************************************)
(* Claims about the finalization                                           *)
(***************************************************************************)
RecoverySteps == {"f_scale_helper", "f_wait_helper", "f_scale_one", "f_wait_ready",
                  "f_refresh", "f_scale_back"}

FinalizedSuccess(o) ==
    /\ Len(hist[o].finalized) = 1
    /\ SuccessStatus(hist[o].finalized[1])

\* C24: whether or not steps of the recovery failed, a daemon that finalized a
\* successful job goes on to its final status update with phase Succeeded, and
\* when it has ended it has made that update and the delete call: the
\* Operation, if it is still there, has phase Succeeded and is being deleted.
C24_FinalizeFailuresAreIgnored ==
    \A o \in Ops :
        FinalizedSuccess(o) =>
            /\ dpc[o] \in RecoverySteps \cup {"final_patch", "delete", "exited"}
            /\ dpc[o] \in RecoverySteps \cup {"final_patch", "delete"}
                    => dloc[o].phase = "Succeeded"
            /\ dpc[o] = "exited" =>
                    /\ hist[o].finalPatch = 1
                    /\ hist[o].deleteCalls = 1
                    /\ cr[o].present =>
                          PhaseIn(cr, o) = "Succeeded" /\ cr[o].deletionTimestamp

\* the start of the cluster failed, the Operation succeeded and is being deleted
C24_Witness ==
    /\ dpc["op1"] = "exited"
    /\ FinalizedSuccess("op1")
    /\ "scale1" \in hist["op1"].finFailed
    /\ cr["op1"].present
    /\ PhaseIn(cr, "op1") = "Succeeded"
    /\ cr["op1"].deletionTimestamp

\* C25: the recovery starts the real cluster (scales it to 1) only after the
\* helper workload was scaled to 0 and its pods were seen gone, so that the
\* helper pod is not alive when the start of pod 0 is awaited.
C25_HelperStoppedBeforeStart ==
    \A o \in Ops :
        dpc[o] \in {"f_wait_ready", "f_refresh", "f_scale_back"} =>
            /\ Len(hist[o].fin) >= 3
            /\ SubSeq(hist[o].fin, 1, 3) = <<"helper0", "helper_gone", "scale1">>
            /\ dpc[o] = "f_wait_ready" => ~env[BodyCluster(o)].hpod

\* the replica count the recorded value stands for: itself if it is a number of
\* at least 1, and 1 if it is missing, not a number or smaller than 1
ClaimedReplicas(raw) ==
    IF raw.kind = "int" THEN (IF raw.n >= 1 THEN raw.n ELSE 1)
    ELSE IF raw = PyStr(<<"3">>) THEN 3
    ELSE 1

RecordedReplicas(o) == get(cr[o].status, "originalReplicas", PyNone)

\* the steps of the recovery that were run to their end
FinDone(o) == {hist[o].fin[i] : i \in 1..Len(hist[o].fin)}

QuiesceSteps ==
    {"record_replicas", "scale_zero", "wait_pods_gone", "list_pvcs", "delete_pvc",
     "wait_pvc_deleted", "verify_sts", "verify_pods"}

\* C27: a step of the create handler of an Operation that is not a zalando
\* in-place restore (a backup, an out-of-place restore, any CNPG Operation)
\* never enters the quiescing steps, leaves the replica counts, the workload,
\* the pods and the volumes of the live cluster as they are, and leaves the
\* status without originalReplicas.
C27_OnlyInPlaceQuiesces ==
    [][\A o \in Ops :
          (cr[o].present /\ ~(cr[o].kind.operator = "zalando" /\ is_restore_in_place(cr[o].kind))
                /\ pc'[o] # pc[o]) =>
              LET c == cr[o].cluster
              IN  /\ pc'[o] \notin QuiesceSteps
                  /\ env'[c].zinst = env[c].zinst
                  /\ env'[c].replicas = env[c].replicas
                  /\ env'[c].sts = env[c].sts
                  /\ env'[c].pods = env[c].pods
                  /\ env'[c].pvc = env[c].pvc
                  /\ "originalReplicas" \notin DOMAIN cr'[o].status]_vars

\* a CNPG out-of-place restore was provisioned next to the running cluster
C27_Witness ==
    /\ pc["op1"] = "start_task"
    /\ cr["op1"].kind = [operator |-> "cnpg", action |-> "restore", restore_mode |-> "out-of-place"]
    /\ env["pg1"].pods = 1
    /\ env["pg1"].replicas = 1
    /\ env["pg1"].pvc[0] = "present"
    /\ \E v \in env["pg1"].vols : v.type = "restore" /\ v.op = "op1"
    /\ env["pg1"].helper.present
    /\ "originalReplicas" \notin DOMAIN cr["op1"].status

\* C28: the target volume of a CNPG Operation, backup or restore in any mode, is
\* a clone or restore volume named after the source volume and the run, never a
\* volume of the live cluster.
C28_CnpgTargetsDisposable ==
    \A o \in Ops :
        (cr[o].present /\ cr[o].kind.operator = "cnpg" /\ loc[o].target # NoVolume) =>
            /\ loc[o].target.type \in {"clone", "restore"}
            /\ loc[o].target.op = o

(***************************************************************************)
(* Claims about the status update                                          *)
(***************************************************************************)
\* the fields of the last call
LastFields == IF fnOut.calls = 1 THEN fnIn.first ELSE fnIn.second

\* C29: a patch_status call leaves every field it does not name as it was
\* before the call and adds no other field; the fields it names hold the values
\* given when the PATCH was accepted; and after two accepted calls with
\* disjoint field sets the status holds both field sets next to the fields it
\* had before.
C29_MergePatch ==
    fnOut.f = "patch" =>
        /\ DOMAIN fnOut.status \subseteq (DOMAIN fnOut.before) \cup (DOMAIN LastFields)
        /\ \A k \in (DOMAIN fnOut.before) \ (DOMAIN LastFields) :
                k \in DOMAIN fnOut.status /\ fnOut.status[k] = fnOut.before[k]
        /\ (fnOut.calls = 2 /\ fnOut.written
                /\ (DOMAIN fnIn.first) \cap (DOMAIN fnIn.second) = {}) =>
              /\ DOMAIN fnOut.status =
                    (DOMAIN fnIn.status) \cup (DOMAIN fnIn.first) \cup (DOMAIN fnIn.second)
              /\ \A k \in DOMAIN fnIn.first : fnOut.status[k] = "one"
              /\ \A k \in DOMAIN fnIn.second : fnOut.status[k] = "two"
              /\ \A k \in (DOMAIN fnIn.status) \ ((DOMAIN fnIn.first) \cup (DOMAIN fnIn.second)) :
                    fnOut.status[k] = "old"

\* phase was set by the first call, jobId by the second, reason was there before
C29_Witness ==
    /\ fnOut.f = "patch"
    /\ fnOut.calls = 2
    /\ fnOut.written
    /\ DOMAIN fnIn.status = {"reason"}
    /\ DOMAIN fnIn.first = {"phase"}
    /\ DOMAIN fnIn.second = {"jobId"}
    /\ fnOut.status = [reason |-> "old", phase |-> "one", jobId |-> "two"]

(***************************************************************************)
(* Claims about the construction of an Operation                           *)
(***************************************************************************)
\* the value under a key counts as not given: unset, None or empty
NotGiven(v) == v = Unset \/ v = PyNone \/ v = PyStr(<<>>)

\* C30: the construction raises exactly when the action, backup if not given,
\* is neither backup nor restore whatever its case, and then nothing was
\* provisioned, no vendor call was made and the status is empty; a constructed
\* backup has empty restore_date and restore_mode; a constructed restore without
\* a restore_mode has out-of-place; is_restore_in_place() holds exactly for
\* action restore with restore_mode in-place.
C30_OperationConstruction ==
    fnOut.f = "operation" =>
        LET given == fnIn.spec.action
            op == fnOut.op
            valid == \/ NotGiven(given)
                     \/ EqualsIgnoringCase(given.s, sBackup)
                     \/ EqualsIgnoringCase(given.s, sRestore)
        IN  /\ op.raised <=> ~valid
            /\ op.raised =>
                    /\ pc["op1"] = "raised"
                    /\ hist["op1"] = InitHist
                    /\ cr["op1"].status = EmptyStatus
                    /\ env = [c \in Clusters |-> InitCluster(1)]
            /\ ~op.raised =>
                    /\ op.action \in {sBackup, sRestore}
                    /\ op.action = sBackup =>
                            op.restore_date = PyStr(<<>>) /\ op.restore_mode = <<>>
                    /\ (op.action = sRestore /\ NotGiven(fnIn.spec.restore_mode)) =>
                            op.restore_mode = sOutOfPlace
                    /\ is_restore_in_place(KindOfOperation(op))
                            <=> (op.action = sRestore /\ op.restore_mode = sInPlace)

\* an Operation with action "delete" was refused before run()
C30_Witness ==
    /\ fnOut.f = "operation"
    /\ fnIn.spec.action = PyStr(rDelete)
    /\ fnOut.op.raised
    /\ pc["op1"] = "raised"
    /\ hist["op1"] = InitHist

(***************************************************************************)
(* Claims about termination                                                *)
(***************************************************************************)
\* the Operation o has an outcome: a final phase, or it is deleted or gone
Settled(o) ==
    \/ ~cr[o].present
    \/ cr[o].deletionTimestamp
    \/ PhaseIn(cr, o) \in {"Succeeded", "Failed", "Rejected"}

\* C31: under fair scheduling the Operation op1, once created, eventually has
\* phase Succeeded, Failed or Rejected, or is deleted.
C31_NoOperationHangs ==
    cr["op1"].present ~> Settled("op1")

(***************************************************************************)
(* Claims about the quiescing of the live cluster                          *)
(***************************************************************************)
StepsOf(o) == {hist[o].steps[i] : i \in 1..Len(hist[o].steps)}

\* C32: an in-place restore requests the deletion of a volume of the live
\* cluster only after the scale-down to 0 succeeded and the pods of the
\* cluster were seen gone.
C32_DeleteOnlyAfterQuiesce ==
    [][\A o \in Ops :
          (pc[o] = "delete_pvc"
              /\ \E i \in PvcIdx : /\ env[cr[o].cluster].pvc[i] = "present"
                                   /\ env'[cr[o].cluster].pvc[i] = "terminating")
            => {"scale0", "pods_gone"} \subseteq StepsOf(o)]_vars

\* C34: wait_for_sts_pods_gone for the StatefulSet of the cluster counts only
\* the pods of that StatefulSet: when the re-verification of an in-place
\* restore waits for the pods and the cluster has no non-terminating pod, the
\* wait is over, whether the pod of the helper workload runs or not.
C34_WaitCountsOnlyOwnPods ==
    \A o \in Ops :
        (pc[o] = "verify_pods" /\ env[ClusterOf(o)].pods = 0)
            => wait_for_sts_pods_gone(env, <<ClusterOf(o)>>)

(***************************************************************************)
(* Claims about the calls to the API server                                *)
(***************************************************************************)
\* C35: patch_status and delete_cr never raise to their caller; a not-found
\* answer makes patch_status write nothing and makes delete_cr a logged no-op;
\* any other API error or unexpected exception is logged and nothing is raised.
C35_ApiCallsNeverRaise ==
    /\ fnOut.f = "patch_status" =>
          /\ ~fnOut.res.raised
          /\ (fnOut.get = "404" \/ (fnOut.get \in {"ok", "ApiException"} /\ fnOut.patch = "404"))
                => ~fnOut.res.sent /\ fnOut.res.status = fnIn.status
          /\ (fnOut.get \in {"ApiException", "Exception"}
                 \/ (fnOut.get = "ok" /\ fnOut.patch \in {"ApiException", "Exception"}))
                => fnOut.res.log # <<>>
    /\ fnOut.f = "delete_cr" =>
          /\ ~fnOut.res.raised
          /\ fnOut.answer = "404"
                => fnOut.res.log = <<"already deleted">> /\ fnOut.res.present = fnIn.present
          /\ fnOut.answer \in {"ApiException", "Exception"}
                => fnOut.res.log # <<>> /\ fnOut.res.present = fnIn.present

\* a PATCH that failed with an error other than not-found was logged and
\* left the status as it was
C35_Witness ==
    /\ fnOut.f = "patch_status"
    /\ fnOut.get = "ok"
    /\ fnOut.patch = "ApiException"
    /\ ~fnOut.res.raised
    /\ fnOut.res.log = <<"Status PATCH failed">>
    /\ fnOut.res.status = fnIn.status
    /\ fnIn.fields # EmptyStatus

(***************************************************************************)
(* Claims about two Operations on one cluster                              *)
(***************************************************************************)
\* the polling task of o saw its job successful and the finalization of the
\* zalando in-place restore has not finished yet
Recovering(o) ==
    /\ dpc[o] \in {"finalize", "f_scale_helper", "f_wait_helper", "f_scale_one",
                   "f_wait_ready", "f_refresh", "f_scale_back"}
    /\ is_success(dloc[o].status)
    /\ dloc[o].body.kind.operator = "zalando"
    /\ is_restore_in_place(dloc[o].body.kind)

\* C36: from the moment the job of a zalando in-place restore is seen
\* successful until its finalization has finished, no other Operation for the
\* same cluster passes the ConcurrencyGuard (the listing of the Operations
\* having been answered).
C36_NoAdmissionWhileRecovering ==
    [][\A o \in Ops, other \in Ops :
          (/\ o # other
           /\ Recovering(o)
           /\ cr[other].present
           /\ cr[other].cluster = BodyCluster(o)
           /\ pc[other] = "guard"
           /\ ~hist'[other].listFailed)
            => hist'[other].guard # "passed"]_vars

(***************************************************************************)
(* Claims about the helper workload                                        *)
(***************************************************************************)
\* C37: when the vendor task of an Operation is about to be requested, the
\* helper workload that exists under the helper name of the Operation mounts
\* the target volume of this Operation, also when a helper workload of that
\* name was left by an earlier Operation that failed and was retained.
C37_HelperMountsOwnTarget ==
    \A o \in Ops :
        pc[o] = "start_task" =>
            /\ env[ClusterOf(o)].helper.present
            /\ env[ClusterOf(o)].helper.volume = loc[o].target

(***************************************************************************)
(* Claims about a restart of the operator                                  *)
(***************************************************************************)
\* how often the finalization of o scaled the cluster to one replica
ScaleOneCount(o) ==
    Cardinality({i \in 1..Len(hist[o].fin) : hist[o].fin[i] = "scale1"})

\* C38: the finalization workflow of an Operation is executed at most once,
\* also when the polling task is started again for an Operation that has its
\* final status and its jobId: the cluster is scaled to one replica by the
\* finalization at most once.
C38_FinalizedAtMostOnce ==
    \A o \in Ops : ScaleOneCount(o) <= 1

(***************************************************************************)
(* Claims about the cluster a finished Operation leaves                    *)
(***************************************************************************)
\* o has a terminal phase, its handler has returned and its daemon, if it had
\* a job to poll, has exited
Finished(o) ==
    /\ cr[o].present
    /\ pc[o] = "done"
    /\ PhaseIn(cr, o) \in {"Succeeded", "Failed"}
    /\ IF "jobId" \in DOMAIN cr[o].status THEN dpc[o] = "exited" ELSE dpc[o] = "off"

\* C39: a zalando in-place restore that scaled the live cluster to 0 replicas
\* and has ended Succeeded or Failed leaves the cluster with a desired replica
\* count of at least 1.
C39_NeverLeftQuiesced ==
    \A o \in Ops :
        (Finished(o) /\ InPlace(o) /\ "scale0" \in StepsOf(o))
            => env[ClusterOf(o)].zinst >= 1

(***************************************************************************)
(* Claims about the two classifications of a vendor status                 *)
(***************************************************************************)
\* C40: for every status of a job, whatever its letter case and the white
\* space around it, is_terminal holds exactly when map_phase_from_status
\* yields Succeeded or Failed, and is_success holds exactly when it yields
\* Succeeded.
C40_ClassificationsAgree ==
    (fnOut.f = "map_phase" /\ fnIn.status.kind = "cjs") =>
        /\ is_terminal(fnIn.status) <=> fnOut.phase \in {"Succeeded", "Failed"}
        /\ is_success(fnIn.status) <=> fnOut.phase = "Succeeded"

\* the name n is <template>-<S>-<index> with a purely numeric index, for the
\* template t of S
NumberedVolumeOf(n, t) ==
    \E k \in 1..Len(n) :
        /\ SubSeq(n, 1, k) = t \o <<"-">> \o StsName \o <<"-">>
        /\ k < Len(n)
        /\ \A i \in (k + 1)..Len(n) : IsDigit(n[i])

TemplatesIn(l) == {l[i] : i \in 1..Len(l)}

\* C33: a call of delete_all_sts_pvcs for S that does not raise deletes exactly
\* the volumes named <template>-<S>-<index>, the index purely numeric, for one
\* of the templates of S, and no other volume.
C33_DeletesExactlyNumbered ==
    (fnOut.f = "delete_pvcs" /\ ~fnOut.res.raised) =>
        fnOut.res.deleted =
            {n \in fnIn.pvc_names :
                \E t \in TemplatesIn(fnIn.template_names) : NumberedVolumeOf(n, t)}

====
